---- MODULE Spec2Model ----
(***************************************************************************)
(* Memory & Retrieval Store of Claude-Companion: the conversation record   *)
(* store (ConversationMemory), the keyword index (SemanticIndex) and the   *)
(* coordinator (MemorySystem).                                             *)
(*                                                                         *)
(* Text is a sequence of symbols.  A symbol is one character ("a", ":",    *)
(* " ") or, for fixed text the program itself emits and never takes        *)
(* apart, one chunk ("conversation_id", "<h-summary>").  TLA+ strings are  *)
(* ASCII only, so the CJK literals of the source are written as bracketed  *)
(* stand-ins: "<in-progress>" is the end_time marker of part_001:239,      *)
(* "<no-summary>" the placeholder of part_001:249, "<zh-..>" an ideograph. *)
(***************************************************************************)
EXTENDS Integers, Sequences, FiniteSets, TLC

(***************************************************************************)
(* Bounds of the model                                                     *)
(***************************************************************************)
\* number of API calls behind initialize in one behaviour of the coordinator
MaxOps == 3
\* the clock runs from 1 to MaxNow ticks
MaxNow == 2
\* number of API calls in one behaviour of the index model
MaxIndexOps == 3
\* the clock of the index model runs from 1 to MaxIndexNow ticks
MaxIndexNow == 3
\* largest limit handed to search / getRelatedConversationIds
MaxLimit == 3
\* number of writing calls in one behaviour of the session and query models
MaxSessionOps == 2

\* clock ticks per calendar day (granularity of the modelled clock)
TicksPerDay == 2

(***************************************************************************)
(* Characters and strings                                                  *)
(***************************************************************************)
LowerChars == <<"a","b","c","d","e","f","g","h","i","j","k","l","m",
                "n","o","p","q","r","s","t","u","v","w","x","y","z">>
UpperChars == <<"A","B","C","D","E","F","G","H","I","J","K","L","M",
                "N","O","P","Q","R","S","T","U","V","W","X","Y","Z">>
DigitChars == <<"0","1","2","3","4","5","6","7","8","9">>
\* stand-ins for characters of the range 一-龥
CJKChars == {"<zh-de>", "<zh-le>", "<zh-shi>", "<zh-zai>", "<zh-he>", "<zh-you>",
             "<zh-wo>", "<zh-ni>", "<zh-ta1>", "<zh-ta2>", "<zh-ta3>"}

Range(s) == {s[i] : i \in DOMAIN s}

IsLower(c) == c \in Range(LowerChars)
IsUpper(c) == c \in Range(UpperChars)
IsDigit(c) == c \in Range(DigitChars)
IsCJK(c) == c \in CJKChars

\* String.prototype.toLowerCase, one character
toLowerCase(c) ==
  IF IsUpper(c)
    THEN LowerChars[CHOOSE i \in DOMAIN UpperChars : UpperChars[i] = c]
    ELSE c

\* decimal digit of a small number
Digit(n) == DigitChars[n + 1]

\* String.prototype.split(sep) for a one-character separator
RECURSIVE split(_, _)
split(s, sep) ==
  IF \A i \in DOMAIN s : s[i] # sep
    THEN <<s>>
    ELSE LET k == CHOOSE i \in DOMAIN s :
                    s[i] = sep /\ \A j \in 1..(i - 1) : s[j] # sep
         IN  <<SubSeq(s, 1, k - 1)>> \o split(SubSeq(s, k + 1, Len(s)), sep)

\* String.prototype.trim (the only white space of the alphabet is " ")
RECURSIVE trim(_)
trim(s) ==
  IF s = <<>> THEN s
  ELSE IF Head(s) = " " THEN trim(Tail(s))
  ELSE IF s[Len(s)] = " " THEN trim(SubSeq(s, 1, Len(s) - 1))
  ELSE s

\* String.prototype.includes
includes(s, sub) ==
  \E i \in 1..(Len(s) - Len(sub) + 1) : SubSeq(s, i, i + Len(sub) - 1) = sub

\* String.prototype.startsWith
startsWith(s, pre) == Len(s) >= Len(pre) /\ SubSeq(s, 1, Len(pre)) = pre

\* map over a sequence
Map(f(_), s) == [i \in DOMAIN s |-> f(s[i])]

\* Array.prototype.push(...items) / join of a sequence of sequences
RECURSIVE Flatten(_)
Flatten(ss) == IF ss = <<>> THEN <<>> ELSE Head(ss) \o Flatten(Tail(ss))

\* [...new Set(xs)]: first occurrences, in order
RECURSIVE Dedupe(_)
Dedupe(xs) ==
  IF xs = <<>> THEN <<>>
  ELSE LET r == Dedupe(SubSeq(xs, 1, Len(xs) - 1))
           x == xs[Len(xs)]
       IN  IF x \in Range(r) THEN r ELSE Append(r, x)

(***************************************************************************)
(* The clock: Date.now(), new Date().toISOString(), formatDate             *)
(***************************************************************************)
DayOf(t) == t \div TicksPerDay
TickOfDay(t) == t % TicksPerDay

\* Date.prototype.toISOString: <date>T<hour>:<rest>; the date part holds no
\* "T" and no ":", the two ticks of a day fall into the same hour
toISOString(t) == <<"D", Digit(DayOf(t)), "T", "0", "9", ":", Digit(TickOfDay(t))>>

\* part_001:370 formatDate
formatDate(t) == split(toISOString(t), "T")[1]

(***************************************************************************)
(* Record store: ConversationMemory (part_001)                             *)
(***************************************************************************)
\* null / an absent file
Null == [isNull |-> TRUE]

\* the literal text of the source
InProgress == <<"<in-progress>">>
NoSummary == <<"<no-summary>">>
Dashes == <<"-", "-", "-">>

\* part_001:30 the id: conv_<Date.now()>_<first hex digits of a uuid>; the
\* eight hex digits are one symbol u
ConversationId(t, u) == <<"c", "o", "n", "v", "_", Digit(t), "_", u>>

\* part_001:33-54 the record createConversation builds
NewRecord(id, title, userName, project, t) ==
  [ metadata |-> [ conversationId |-> id, title |-> title,
                   startTime |-> toISOString(t), endTime |-> <<>>,
                   userName |-> userName, project |-> project, summary |-> <<>> ],
    summary |-> <<>>,
    keyDecisions |-> <<>>,
    problemsAndSolutions |-> <<>>,
    usedTechnologies |-> <<>>,
    todos |-> <<>> ]

MetaLine(key, value) == <<key, ":", " ">> \o value

DecisionRow(d) ==
  <<"|", " ">> \o d.decisionPoint \o <<" ", "|", " ">> \o d.decision
               \o <<" ", "|", " ">> \o d.reason \o <<" ", "|">>

ProblemRow(ps) ==
  <<"|", " ">> \o ps.problem \o <<" ", "|", " ">> \o ps.solution
               \o <<" ", "|", " ">> \o ps.result \o <<" ", "|">>

TechLine(tech) == <<"-", " ">> \o tech.name \o <<":", " ">> \o tech.purpose

TodoLine(todo) ==
  <<"-", " ", IF todo.completed THEN "[x]" ELSE "[ ]", " ">>
    \o (IF todo.priority = "high" THEN <<"!">>
        ELSE IF todo.priority = "medium" THEN <<"?">> ELSE <<>>)
    \o <<" ">> \o todo.task

Heading(h) == <<"#", "#", " ", h>>

\* part_001:231-308 formatConversationMarkdown: the lines of the file
formatConversationMarkdown(record) ==
  LET m == record.metadata IN
  << Dashes,
     MetaLine("conversation_id", m.conversationId),
     MetaLine("title", m.title),
     MetaLine("start_time", m.startTime),
     MetaLine("end_time", IF m.endTime # <<>> THEN m.endTime ELSE InProgress),
     MetaLine("user_name", m.userName),
     MetaLine("project", m.project),
     MetaLine("summary", m.summary),
     Dashes,
     <<>>,
     Heading("<h-summary>"),
     <<>>,
     IF record.summary # <<>> THEN record.summary ELSE NoSummary,
     <<>> >>
  \o (IF Len(record.keyDecisions) > 0
        THEN <<Heading("<h-decisions>"), <<>>, <<"<decision-table-head>">>,
               <<"<table-rule>">>>>
             \o Map(DecisionRow, record.keyDecisions) \o << <<>> >>
        ELSE <<>>)
  \o (IF Len(record.problemsAndSolutions) > 0
        THEN <<Heading("<h-problems>"), <<>>, <<"<problem-table-head>">>,
               <<"<table-rule>">>>>
             \o Map(ProblemRow, record.problemsAndSolutions) \o << <<>> >>
        ELSE <<>>)
  \o (IF Len(record.usedTechnologies) > 0
        THEN <<Heading("<h-tech>"), <<>>, <<"#", "#", "#", " ", "<h-used-tech>">>>>
             \o Map(TechLine, record.usedTechnologies) \o << <<>> >>
        ELSE <<>>)
  \o (IF Len(record.todos) > 0
        THEN <<Heading("<h-todos>"), <<>>>>
             \o Map(TodoLine, record.todos) \o << <<>> >>
        ELSE <<>>)

\* part_001:324-336 the metadata loop: i the next line, inMetadata the flag,
\* metadata the key/value object read so far
RECURSIVE parseMetadata(_, _, _, _)
parseMetadata(lines, i, inMetadata, metadata) ==
  IF i > Len(lines) THEN metadata
  ELSE LET line == lines[i] IN
    IF line = Dashes
      THEN parseMetadata(lines, i + 1, ~inMetadata, metadata)
    ELSE LET md == IF inMetadata /\ includes(line, <<":">>)
                     THEN LET kv == Map(trim, split(line, ":"))
                          IN  (kv[1] :> kv[2]) @@ metadata
                     ELSE metadata
         IN  IF ~inMetadata /\ startsWith(line, <<"#", "#">>)
               THEN md
               ELSE parseMetadata(lines, i + 1, inMetadata, md)

\* metadata.<key> || ''
MetaValue(metadata, key) ==
  IF <<key>> \in DOMAIN metadata THEN metadata[<<key>>] ELSE <<>>

\* the lines one pushed line stands for in the joined text
LinesOf(line) == split(line, "\n")

\* part_001:307, 315 lines.join('\n') written, content.split('\n') read: a
\* value that holds a line break comes back as several lines
SplitLines(content) == Flatten(Map(LinesOf, content))

\* part_001:313-365 parseConversationMarkdown: the metadata block is read
\* back, summary, decisions, problems and todos are left as initialised
parseConversationMarkdown(content) ==
  LET metadata == parseMetadata(SplitLines(content), 1, FALSE, <<>>) IN
  [ metadata |-> [ conversationId |-> MetaValue(metadata, "conversation_id"),
                   title |-> MetaValue(metadata, "title"),
                   startTime |-> MetaValue(metadata, "start_time"),
                   endTime |-> MetaValue(metadata, "end_time"),
                   userName |-> MetaValue(metadata, "user_name"),
                   project |-> MetaValue(metadata, "project"),
                   summary |-> MetaValue(metadata, "summary") ],
    summary |-> <<>>,
    keyDecisions |-> <<>>,
    problemsAndSolutions |-> <<>>,
    usedTechnologies |-> <<>>,
    todos |-> <<>> ]

\* part_001:67 title.replace(/[^a-zA-Z0-9一-龥]/g, '_')
\* (the key token holds letters and underscores only and stays as it is)
SanitizeChar(c) ==
  IF IsLower(c) \/ IsUpper(c) \/ IsDigit(c) \/ IsCJK(c) \/ c = "conversation_id"
    THEN c ELSE "_"

\* part_001:67 the file name (inside conversations/)
FileName(t, conversationId, record) ==
  formatDate(t) \o <<"_">> \o conversationId \o <<"_">>
    \o Map(SanitizeChar, record.metadata.title) \o <<".md">>

\* part_001:63-70 saveConversation on the directory fs (file name -> lines)
saveConversation(fs, t, conversationId, record) ==
  (FileName(t, conversationId, record) :> formatConversationMarkdown(record)) @@ fs

\* part_001:76-77 the files whose name contains the id; readdir returns them
\* in directory order, so find() may meet any of them first
MatchingFiles(fs, conversationId) ==
  {f \in DOMAIN fs : includes(f, conversationId)}

\* part_001:75-85 loadConversation: every record the call can return
LoadResults(fs, conversationId) ==
  IF MatchingFiles(fs, conversationId) = {}
    THEN {Null}
    ELSE {parseConversationMarkdown(fs[f]) : f \in MatchingFiles(fs, conversationId)}

\* the characters of a file name in the order of their code units; the key
\* token sorts at its first letter
CodeOrder == <<".md">> \o DigitChars \o UpperChars \o <<"_">> \o LowerChars

CodeOf == [c \in Range(CodeOrder) |-> CHOOSE i \in DOMAIN CodeOrder : CodeOrder[i] = c]

CharCode(c) == CodeOf[IF c = "conversation_id" THEN "c" ELSE c]

\* a < b as Array.prototype.sort compares two strings
RECURSIVE LessThan(_, _)
LessThan(a, b) ==
  IF b = <<>> THEN FALSE
  ELSE IF a = <<>> THEN TRUE
  ELSE IF CharCode(Head(a)) < CharCode(Head(b)) THEN TRUE
  ELSE IF CharCode(Head(a)) > CharCode(Head(b)) THEN FALSE
  ELSE LessThan(Tail(a), Tail(b))

\* part_001:194 files.sort(): the names in ascending order
RECURSIVE sort(_)
sort(names) ==
  IF names = {} THEN <<>>
  ELSE LET least == CHOOSE f \in names : \A g \in names \ {f} : LessThan(f, g)
       IN  <<least>> \o sort(names \ {least})

\* the mirror image of an array left as it is
Unreversed(xs) == xs

\* part_001:194 .reverse()
reverse(xs) == [i \in DOMAIN xs |-> xs[Len(xs) + 1 - i]]

\* Array.prototype.slice(0, limit), limit >= 0
Slice(xs, limit) == SubSeq(xs, 1, IF limit < Len(xs) THEN limit ELSE Len(xs))

\* part_001:193-194 the listed files, newest name first
SortedFiles(fs) == reverse(sort(DOMAIN fs))

\* part_001:196-203 the records read from the files named, in that order
ReadRecords(fs, names) == [i \in DOMAIN names |-> parseConversationMarkdown(fs[names[i]])]

\* part_001:101-107
WithDecision(record, decisionPoint, decision, reason) ==
  [record EXCEPT !.keyDecisions =
     Append(@, [decisionPoint |-> decisionPoint, decision |-> decision, reason |-> reason])]

\* part_001:125-131
WithProblemSolution(record, problem, solution, result) ==
  [record EXCEPT !.problemsAndSolutions =
     Append(@, [problem |-> problem, solution |-> solution, result |-> result])]

\* part_001:148-155 (the todo's uuid is never written to the file)
WithTodo(record, task, priority) ==
  [record EXCEPT !.todos =
     Append(@, [task |-> task, completed |-> FALSE, priority |-> priority])]

\* part_001:171-172
WithSummary(record, summary) ==
  [record EXCEPT !.summary = summary, !.metadata.summary = summary]

\* part_001:185
WithEndTime(record, t) == [record EXCEPT !.metadata.endTime = toISOString(t)]

(***************************************************************************)
(* Keyword index: SemanticIndex (src/memory/SemanticIndex.ts)              *)
(***************************************************************************)
\* SemanticIndex.ts:237-242
stopWords ==
  { <<"t", "h", "e">>,
    <<"a">>,
    <<"a", "n">>,
    <<"i", "s">>,
    <<"a", "r", "e">>,
    <<"w", "a", "s">>,
    <<"w", "e", "r", "e">>,
    <<"b", "e">>,
    <<"b", "e", "e", "n">>,
    <<"b", "e", "i", "n", "g">>,
    <<"h", "a", "v", "e">>,
    <<"h", "a", "s">>,
    <<"h", "a", "d">>,
    <<"d", "o">>,
    <<"d", "o", "e", "s">>,
    <<"d", "i", "d">>,
    <<"w", "i", "l", "l">>,
    <<"w", "o", "u", "l", "d">>,
    <<"c", "o", "u", "l", "d">>,
    <<"s", "h", "o", "u", "l", "d">>,
    <<"m", "a", "y">>,
    <<"m", "i", "g", "h", "t">>,
    <<"m", "u", "s", "t">>,
    <<"s", "h", "a", "l", "l">>,
    <<"c", "a", "n">>,
    <<"n", "e", "e", "d">>,
    <<"d", "a", "r", "e">>,
    <<"<zh-de>">>,
    <<"<zh-le>">>,
    <<"<zh-shi>">>,
    <<"<zh-zai>">>,
    <<"<zh-he>">>,
    <<"<zh-you>">>,
    <<"<zh-wo>">>,
    <<"<zh-ni>">>,
    <<"<zh-ta1>">>,
    <<"<zh-ta2>">>,
    <<"<zh-ta3>">> }

\* SemanticIndex.ts:232 replace(/[^一-龥a-z0-9\s]/g, ' ')
KeywordChar(c) == IF IsCJK(c) \/ IsLower(c) \/ IsDigit(c) \/ c = " " THEN c ELSE " "

\* String.prototype.split(/\s+/): a run of blanks is one separator
splitWhitespace(s) ==
  LET pieces == split(s, " ")
      kept == {i \in DOMAIN pieces : pieces[i] # <<>> \/ i = 1 \/ i = Len(pieces)}
      F[i \in 0..Len(pieces)] ==
        IF i = 0 THEN <<>>
        ELSE IF i \in kept THEN Append(F[i - 1], pieces[i]) ELSE F[i - 1]
  IN  F[Len(pieces)]

IsKeyword(word) == Len(word) > 1 /\ word \notin stopWords

\* SemanticIndex.ts:226-245 extractKeywordsFromString
extractKeywordsFromString(text) ==
  IF text = <<>> THEN <<>>
  ELSE SelectSeq(splitWhitespace(Map(KeywordChar, Map(toLowerCase, text))), IsKeyword)

TechName(tech) == Map(toLowerCase, tech.name)

\* SemanticIndex.ts:203-221 extractKeywords
extractKeywords(conversation) ==
  Dedupe(extractKeywordsFromString(conversation.metadata.title)
           \o extractKeywordsFromString(conversation.summary)
           \o extractKeywordsFromString(conversation.metadata.project)
           \o Map(TechName, conversation.usedTechnologies))

\* relevance weights in hundredths: 1.0, 0.9, 0.95
ConversationWeight == 100
DecisionWeight == 90
ProblemWeight == 95
\* SemanticIndex.ts:103 problem.slice(0, 20)
ProblemIdLength == 20

\* The Map keyword -> IndexEntry[] in its iteration (insertion) order is a
\* sequence of buckets [key, entries]
Keys(index) == {index[i].key : i \in DOMAIN index}
BucketAt(index, kw) == CHOOSE i \in DOMAIN index : index[i].key = kw
GetBucket(index, kw) == index[BucketAt(index, kw)].entries

\* the bucket set to the new entry alone instead of pushed to
PushEntryAlone(index, kw, entry) ==
  IF kw \in Keys(index)
    THEN [i \in DOMAIN index |->
            IF index[i].key = kw THEN [key |-> kw, entries |-> <<entry>>] ELSE index[i]]
    ELSE Append(index, [key |-> kw, entries |-> <<entry>>])

\* SemanticIndex.ts:69-72 has / set(kw, []) / get(kw).push(entry)
PushEntry(index, kw, entry) ==
  IF kw \in Keys(index)
    THEN [index EXCEPT ![BucketAt(index, kw)].entries = Append(@, entry)]
    ELSE Append(index, [key |-> kw, entries |-> <<entry>>])

\* SemanticIndex.ts:68-73 the loop over the keywords of one entry
RECURSIVE PushAll(_, _, _)
PushAll(index, kws, entry) ==
  IF kws = <<>> THEN index
  ELSE PushAll(PushEntry(index, Head(kws), entry), Tail(kws), entry)

\* SemanticIndex.ts:58-65
ConversationEntry(conversation) ==
  [ id |-> conversation.metadata.conversationId,
    type |-> "conversation",
    keywords |-> extractKeywords(conversation),
    timestamp |-> conversation.metadata.startTime,
    conversationId |-> conversation.metadata.conversationId,
    relevanceScore |-> ConversationWeight ]

\* SemanticIndex.ts:77-87
DecisionEntry(conversation, decision) ==
  [ id |-> conversation.metadata.conversationId \o <<"_decision_">> \o decision.decisionPoint,
    type |-> "decision",
    keywords |-> extractKeywordsFromString(decision.decision)
                   \o extractKeywordsFromString(decision.reason),
    timestamp |-> conversation.metadata.startTime,
    conversationId |-> conversation.metadata.conversationId,
    relevanceScore |-> DecisionWeight ]

\* SemanticIndex.ts:99-109
ProblemEntry(conversation, ps) ==
  [ id |-> conversation.metadata.conversationId \o <<"_problem_">>
             \o SubSeq(ps.problem, 1, IF Len(ps.problem) < ProblemIdLength
                                        THEN Len(ps.problem) ELSE ProblemIdLength),
    type |-> "problem",
    keywords |-> extractKeywordsFromString(ps.problem)
                   \o extractKeywordsFromString(ps.solution),
    timestamp |-> conversation.metadata.startTime,
    conversationId |-> conversation.metadata.conversationId,
    relevanceScore |-> ProblemWeight ]

\* SemanticIndex.ts:76-95 the loop over the decisions
RECURSIVE IndexDecisions(_, _, _)
IndexDecisions(index, conversation, decisions) ==
  IF decisions = <<>> THEN index
  ELSE LET e == DecisionEntry(conversation, Head(decisions))
       IN  IndexDecisions(PushAll(index, e.keywords, e), conversation, Tail(decisions))

\* SemanticIndex.ts:98-117 the loop over the problems
RECURSIVE IndexProblems(_, _, _)
IndexProblems(index, conversation, problems) ==
  IF problems = <<>> THEN index
  ELSE LET e == ProblemEntry(conversation, Head(problems))
       IN  IndexProblems(PushAll(index, e.keywords, e), conversation, Tail(problems))

\* SemanticIndex.ts:55-118 indexConversation, the in-memory part
indexConversation(index, conversation) ==
  LET e == ConversationEntry(conversation)
      i1 == PushAll(index, e.keywords, e)
      i2 == IndexDecisions(i1, conversation, conversation.keyDecisions)
  IN  IndexProblems(i2, conversation, conversation.problemsAndSolutions)

\* SemanticIndex.ts:134-135 scores.get(id) || 0, scores.set(id, current + weight);
\* scores is a Map in insertion order: a sequence of [id, score]
AddScore(scores, entry) ==
  IF \E i \in DOMAIN scores : scores[i].id = entry.id
    THEN LET k == CHOOSE i \in DOMAIN scores : scores[i].id = entry.id
         IN  [scores EXCEPT ![k].score = @ + entry.relevanceScore]
    ELSE Append(scores, [id |-> entry.id, score |-> entry.relevanceScore])

\* SemanticIndex.ts:133-136 the loop over one bucket
RECURSIVE ScoreEntries(_, _)
ScoreEntries(scores, entries) ==
  IF entries = <<>> THEN scores
  ELSE ScoreEntries(AddScore(scores, Head(entries)), Tail(entries))

\* SemanticIndex.ts:130-138 the loop over the query keywords
RECURSIVE ScoreKeywords(_, _, _)
ScoreKeywords(index, scores, queryKeywords) ==
  IF queryKeywords = <<>> THEN scores
  ELSE LET kw == Head(queryKeywords)
           s1 == IF kw \in Keys(index)
                   THEN ScoreEntries(scores, GetBucket(index, kw))
                   ELSE scores
       IN  ScoreKeywords(index, s1, Tail(queryKeywords))

\* the comparator with its operands exchanged, (a, b) => a[1] - b[1]
InOrderAscending(a, b) == a.score <= b.score

\* SemanticIndex.ts:142 comparator (a, b) => b[1] - a[1]: a stays before b
InOrder(a, b) == a.score >= b.score

\* Array.prototype.sort is stable: x goes behind every element it does not
\* have to precede
RECURSIVE InsertSorted(_, _)
InsertSorted(sorted, x) ==
  IF sorted = <<>> THEN <<x>>
  ELSE IF InOrder(Head(sorted), x)
         THEN <<Head(sorted)>> \o InsertSorted(Tail(sorted), x)
         ELSE <<x>> \o sorted

RECURSIVE SortByScore(_)
SortByScore(scores) ==
  IF scores = <<>> THEN <<>>
  ELSE InsertSorted(SortByScore(SubSeq(scores, 1, Len(scores) - 1)), scores[Len(scores)])

\* SemanticIndex.ts:141-143
TopScores(scores, limit) == Slice(SortByScore(scores), limit)

\* index.values() flattened in iteration order
AllEntries(index) == Flatten([i \in DOMAIN index |-> index[i].entries])

\* SemanticIndex.ts:149-159 the first entry carrying the id, with the
\* accumulated score attached
Resolve(index, scored) ==
  LET all == AllEntries(index)
      k == CHOOSE i \in DOMAIN all :
             all[i].id = scored.id /\ \A j \in 1..(i - 1) : all[j].id # scored.id
  IN  [all[k] EXCEPT !.relevanceScore = scored.score]

\* SemanticIndex.ts:126-138 the accumulated scores of a query
QueryScores(index, query) ==
  ScoreKeywords(index, <<>>, extractKeywordsFromString(query))

\* SemanticIndex.ts:141-161 the sorted, cut and resolved scores
SearchResults(index, scores, limit) ==
  LET top == TopScores(scores, limit)
  IN  [i \in DOMAIN top |-> Resolve(index, top[i])]

\* SemanticIndex.ts:125-162 search
search(index, query, limit) ==
  SearchResults(index, QueryScores(index, query), limit)

ConversationIdOf(entry) == entry.conversationId

\* the owners collected in an array instead of a Set
RelatedIdsArray(results) == Map(ConversationIdOf, results)

\* SemanticIndex.ts:169-175 ids = new Set(); ids.add(...); Array.from(ids)
RelatedIds(results) == Dedupe(Map(ConversationIdOf, results))

\* SemanticIndex.ts:167-176 getRelatedConversationIds
getRelatedConversationIds(index, query, limit) ==
  RelatedIds(search(index, query, limit))

\* new Date(timestamp): a complete ISO string has a time value; a string cut
\* behind the hour ("D1T09") is no date-time the parser accepts (Invalid Date)
IsValidDate(ts) ==
  Len(ts) = 7 /\ ts[1] = "D" /\ IsDigit(ts[2]) /\ ts[3] = "T" /\ ts[6] = ":" /\ IsDigit(ts[7])

DigitValue(c) == CHOOSE n \in 0..9 : Digit(n) = c

\* the time value of a valid date, in ticks
ParseDate(ts) == DigitValue(ts[2]) * TicksPerDay + DigitValue(ts[7])

\* SemanticIndex.ts:182-183 cutoffDate.setDate(getDate() - daysToKeep)
CutoffDate(t, daysToKeep) == t - daysToKeep * TicksPerDay

\* the comparison with >= in place of >
IsRecentOrAtCutoff(entry, cutoff) ==
  IsValidDate(entry.timestamp) /\ ParseDate(entry.timestamp) >= cutoff

\* SemanticIndex.ts:187 new Date(entry.timestamp) > cutoffDate
\* (every comparison with the NaN of an invalid date is false)
IsRecent(entry, cutoff) ==
  IsValidDate(entry.timestamp) /\ ParseDate(entry.timestamp) > cutoff

\* the sweep without the delete branch: every bucket is set to its filtered list
KeepBucketAlways(filteredEntries) == TRUE

\* SemanticIndex.ts:190-194 delete the bucket or set the filtered list
KeepBucket(filteredEntries) == filteredEntries # <<>>

\* a sweep that deletes the oldest bucket whatever its entries are
clearOldestBucket(index, t, daysToKeep) ==
  IF index = <<>> THEN index ELSE Tail(index)

\* SemanticIndex.ts:181-195 clearOldEntries, the in-memory part
clearOldEntries(index, t, daysToKeep) ==
  LET recent(e) == IsRecent(e, CutoffDate(t, daysToKeep))
      filtered == [i \in DOMAIN index |->
                     [key |-> index[i].key, entries |-> SelectSeq(index[i].entries, recent)]]
      keep(b) == KeepBucket(b.entries)
  IN  SelectSeq(filtered, keep)

\* SemanticIndex.ts:250-260 getStats
RECURSIVE SumLengths(_)
SumLengths(buckets) ==
  IF buckets = <<>> THEN 0 ELSE Len(Head(buckets).entries) + SumLengths(Tail(buckets))

\* SemanticIndex.ts:47-50 save: the JSON document written
IndexJson(index) == [content |-> index]

\* an index file whose content JSON.parse (SemanticIndex.ts:35) does not accept
CorruptIndexFile == [corrupt |-> TRUE]

getStats(index) == [totalKeywords |-> Len(index), totalEntries |-> SumLengths(index)]

(***************************************************************************)
(* Singleton stores: UserPreference and ProjectContext (part_002)          *)
(***************************************************************************)
\* part_002:156-195 createDefaultPreferences (the fields the coordinator's
\* operations read or write)
createDefaultPreferences(t) ==
  [ lastUpdated |-> toISOString(t), totalSessions |-> 0,
    lastSessionDate |-> toISOString(t), commonTasks |-> <<>> ]

\* part_002:44-52 UserPreference.save: the object after lastUpdated is set
SavedPreferences(p, t) == [p EXCEPT !.lastUpdated = toISOString(t)]

\* part_002:116-124 incrementSessionCount, the in-memory part
IncrementedSessions(p, t) ==
  [p EXCEPT !.totalSessions = @ + 1, !.lastSessionDate = toISOString(t)]

\* part_002:225-238 ProjectContext.load on an empty store: the default context
createDefaultContext(t) == [lastUpdated |-> toISOString(t)]

\* part_002:243-252 ProjectContext.save
SavedContext(c, t) == [c EXCEPT !.lastUpdated = toISOString(t)]

(***************************************************************************)
(* Inputs                                                                  *)
(***************************************************************************)
Titles ==
  { <<"A", "u", "t", "h">>,
    <<"d", "b", ":", "u", "p">>,
    \* a title of two lines, the second one reading like a metadata line
    <<"A", "u", "t", "h", "\n", "conversation_id", ":", " ", "!">> }
UserName == <<"a", "l">>
Project == <<"c", "o">>
\* the hex digits a uuid can start with
UuidPrefixes == {"a", "b"}
DecisionPoints == { <<"t", "k">> }
DecisionTexts == { <<"u", "s", "e", " ", "J", "W", "T">> }
Reasons == { <<"o", "k">> }
Problems == { <<"s", "l", "o", "w">> }
Solutions == { <<"J", "W", "T">> }
Results == { <<"o", "k">> }
Tasks == { <<"d", "o", "c", "s">> }
Priorities == {"medium"}
Summaries == { <<"J", "W", "T", " ", "a", "u", "t", "h">> }
Queries == { <<"J", "W", "T">>, <<"a", "u", "t", "h">> }
Limits == 0..MaxLimit
DaysToKeep == {0, 1}

\* an id no conversation carries, and the common prefix of all ids
MissingId == <<"c", "o", "n", "v", "_", "9", "_", "f">>
PartialId == <<"c", "o", "n", "v", "_">>

\* src/config/default.ts:9-17 is all flags set; each flag can be turned off
Configs ==
  { [semanticIndex |-> TRUE, autoSave |-> TRUE, autoLoad |-> TRUE],
    [semanticIndex |-> FALSE, autoSave |-> TRUE, autoLoad |-> TRUE],
    [semanticIndex |-> TRUE, autoSave |-> FALSE, autoLoad |-> TRUE],
    [semanticIndex |-> TRUE, autoSave |-> TRUE, autoLoad |-> FALSE] }

(***************************************************************************)
(* State                                                                   *)
(***************************************************************************)
VARIABLES
  config,        \* MemorySystem.config
  initialized,   \* initialize() has run
  now,           \* the clock, in ticks
  files,         \* the directory conversations/: file name -> lines
  manifest,      \* memory_manifest.json
  index,         \* SemanticIndex.index
  indexFile,     \* semantic_index/index.json
  prefs,         \* UserPreference.preferences
  prefsFile,     \* user_profile/user_preferences.json
  context,       \* ProjectContext.context
  contextFile,   \* project_context/project_overview.md
  ops,           \* number of calls made
  last,          \* the last call and what it returned
  created,       \* history: the ids createConversation returned, in order
  added,         \* history: per call id, the items the add calls that returned added
  ended,         \* history: the ids endConversation returned for
  partialCalls,  \* history: a call with PartialId got a record
  calls,         \* the asynchronous calls made so far: position and local variables
  program,       \* the entry point that serves stdin: main or runMCPServer
  stdin,         \* the chunks written to stdin and not yet delivered
  sent,          \* history: the number of chunks written to stdin
  buffer,        \* the unfinished line kept between two chunks
  handlers,      \* the runs of the chunk handler: lines left, request awaited
  stdout,        \* the lines written to stdout, each with the line it answers
  alive,         \* the process has not exited
  requests,      \* history: the lines split off the input so far, in order
  server,        \* CompanionMCPServer: initialized, companion
  companions,    \* the Companion instances created: initialized
  loadedSkills   \* SkillLoader.loadedSkills: the ids, in insertion order

vars == << config, initialized, now, files, manifest, index, indexFile, prefs,
           prefsFile, context, contextFile, ops, last, created, added, ended,
           partialCalls, calls, program, stdin, sent, buffer, handlers, stdout,
           alive, requests, server, companions, loadedSkills >>

\* the state of the stdio server
rpcVars == << program, stdin, sent, buffer, handlers, stdout, alive, requests >>

\* the state of the MCP server object and of the skill loader
lifecycleVars == << server, companions >>
skillVars == << loadedSkills >>

\* the state outside the memory system
runtimeVars == << calls, rpcVars, lifecycleVars, skillVars >>

storeVars == << files, manifest, prefs, prefsFile, context, contextFile,
                created, added, ended, partialCalls, config, initialized,
                runtimeVars >>

\* nothing outside the memory system has happened
RpcIdle ==
  /\ program = "none"
  /\ stdin = <<>>
  /\ sent = 0
  /\ buffer = <<>>
  /\ handlers = <<>>
  /\ stdout = <<>>
  /\ alive = FALSE
  /\ requests = <<>>

LifecycleIdle ==
  /\ server = [initialized |-> FALSE, companion |-> 0]
  /\ companions = <<>>

SkillsIdle == loadedSkills = <<>>

RuntimeIdle ==
  /\ calls = <<>>
  /\ RpcIdle
  /\ LifecycleIdle
  /\ SkillsIdle

NoItems == [decisions |-> <<>>, problems |-> <<>>, todos |-> <<>>]

Init ==
  /\ config \in Configs
  /\ initialized = FALSE
  /\ now = 1
  /\ files = <<>>
  /\ manifest = Null
  /\ index = <<>>
  /\ indexFile \in {Null, CorruptIndexFile}
  /\ prefs = Null
  /\ prefsFile = Null
  /\ context = Null
  /\ contextFile = Null
  /\ ops = 0
  /\ last = [op |-> "new"]
  /\ created = <<>>
  /\ added = <<>>
  /\ ended = {}
  /\ partialCalls = FALSE
  /\ RuntimeIdle

\* the ids a caller passes
CallIds == Range(created) \cup {MissingId, PartialId}

AddedTo(id) == IF id \in DOMAIN added THEN added[id] ELSE NoItems

(***************************************************************************)
(* Coordinator: MemorySystem (bin/companion-mcp.js:481-857)                *)
(***************************************************************************)
\* an auto-save step that is skipped: nothing is persisted
autoSaveSkipped(p, pf, c, cf, idx, idxf) ==
  [result |-> "none", prefs |-> p, prefsFile |-> pf, context |-> c,
   contextFile |-> cf, indexFile |-> idxf]

\* companion-mcp.js:836-847 autoSave: the first save that throws ends it, the
\* error is swallowed
autoSave(p, pf, c, cf, idx, idxf) ==
  IF p = Null
    THEN [result |-> "failed", prefs |-> p, prefsFile |-> pf, context |-> c,
          contextFile |-> cf, indexFile |-> idxf]
  ELSE IF c = Null
    THEN [result |-> "failed",
          prefs |-> SavedPreferences(p, now), prefsFile |-> SavedPreferences(p, now),
          context |-> c, contextFile |-> cf, indexFile |-> idxf]
  ELSE [result |-> "saved",
        prefs |-> SavedPreferences(p, now), prefsFile |-> SavedPreferences(p, now),
        context |-> SavedContext(c, now), contextFile |-> SavedContext(c, now),
        indexFile |-> IF config.semanticIndex THEN IndexJson(idx) ELSE idxf]

\* companion-mcp.js:836-847 autoSave when a write is refused by the file system
\* (part_000:51-63 write throws): the object in memory carries the new
\* lastUpdated, the file and everything behind the failed save stay as they were
autoSaveFaults(p, pf, c, cf, idx, idxf) ==
  IF p = Null THEN {}
  ELSE { [result |-> "failed", prefs |-> SavedPreferences(p, now), prefsFile |-> pf,
          context |-> c, contextFile |-> cf, indexFile |-> idxf] }
       \cup
       ( IF c = Null THEN {}
         ELSE { [result |-> "failed",
                 prefs |-> SavedPreferences(p, now), prefsFile |-> SavedPreferences(p, now),
                 context |-> SavedContext(c, now), contextFile |-> cf, indexFile |-> idxf] }
              \cup
              ( IF config.semanticIndex
                  THEN { [result |-> "failed",
                          prefs |-> SavedPreferences(p, now),
                          prefsFile |-> SavedPreferences(p, now),
                          context |-> SavedContext(c, now),
                          contextFile |-> SavedContext(c, now), indexFile |-> idxf] }
                  ELSE {} ) )

\* the error a rethrowing catch block would hand to the caller
AutoSaveRethrown(result) == IF result = "failed" THEN "Auto-save failed" ELSE "ok"

\* companion-mcp.js:842-845 catch (error) { console.error(...) }: whatever the
\* saves did, the call goes on and returns
AfterAutoSave(result) == "ok"

\* companion-mcp.js:504-514 the loads of initialize when none of them throws
InitializeLoads ==
  /\ initialized' = TRUE
  /\ index' = IF config.semanticIndex /\ indexFile # Null THEN indexFile.content ELSE index
  /\ IF config.autoLoad
       THEN /\ prefs' = IF prefsFile # Null THEN prefsFile ELSE createDefaultPreferences(now)
            /\ prefsFile' = IF prefsFile # Null THEN prefsFile
                            ELSE SavedPreferences(createDefaultPreferences(now), now)
            /\ context' = IF contextFile # Null THEN contextFile ELSE createDefaultContext(now)
            /\ contextFile' = IF contextFile # Null THEN contextFile
                              ELSE SavedContext(createDefaultContext(now), now)
       ELSE UNCHANGED <<prefs, prefsFile, context, contextFile>>
  /\ last' = [op |-> "initialize", outcome |-> "ok", indexFile |-> indexFile]

\* companion-mcp.js:501-515 initialize (on the store root as it is); the
\* caller's flag (companion-mcp.js:169-194) is set when the call returns
Initialize ==
  /\ ~initialized
  /\ manifest' = IF manifest = Null THEN [createdAt |-> toISOString(now)] ELSE manifest
  /\ IF config.semanticIndex /\ indexFile = CorruptIndexFile
       THEN \* SemanticIndex.ts:35 JSON.parse throws, initialize rejects
            /\ initialized' = FALSE
            /\ last' = [op |-> "initialize", outcome |-> "error", indexFile |-> indexFile]
            /\ UNCHANGED <<index, prefs, prefsFile, context, contextFile>>
       ELSE InitializeLoads
  /\ UNCHANGED <<runtimeVars, config, now, files, indexFile, ops, created, added, ended, partialCalls>>

\* companion-mcp.js:559-566 createConversation, with part_001:25-58 and
\* part_002:116-124, for one title and one uuid
CreateConversationAs(title, u) ==
  /\ initialized /\ ops < MaxOps
  /\ LET conversationId == ConversationId(now, u)
         record == NewRecord(conversationId, title, UserName, Project, now)
     IN  /\ files' = saveConversation(files, now, conversationId, record)
         /\ created' = Append(created, conversationId)
         /\ IF prefs = Null
              THEN /\ last' = [op |-> "createConversation", id |-> conversationId,
                               outcome |-> "Preferences not loaded"]
                   /\ UNCHANGED <<prefs, prefsFile>>
              ELSE /\ prefs' = SavedPreferences(IncrementedSessions(prefs, now), now)
                   /\ prefsFile' = prefs'
                   /\ last' = [op |-> "createConversation", id |-> conversationId,
                               outcome |-> "ok"]
  /\ ops' = ops + 1
  /\ UNCHANGED <<runtimeVars, config, initialized, now, manifest, index, indexFile, context,
                 contextFile, added, ended, partialCalls>>

CreateConversation == \E title \in Titles, u \in UuidPrefixes : CreateConversationAs(title, u)

\* What the record-store mutators share (part_001:90-187) and what the
\* coordinator puts behind them (companion-mcp.js:571-641, 703-713):
\*   load the record, throw if there is none, change it, save it;
\*   reload and re-index (reindex); persist the singleton stores (autosaves).
\* Log is the history kept of a call that returned.
Mutation(opName, conversationId, Change(_), reindex, autosaves, Log(_)) ==
  \/ /\ MatchingFiles(files, conversationId) = {}
     /\ last' = [op |-> opName, id |-> conversationId, outcome |-> "not found"]
     /\ UNCHANGED <<files, index, indexFile, prefs, prefsFile, context, contextFile,
                    added, ended, partialCalls>>
  \/ \E record \in LoadResults(files, conversationId) :
       /\ MatchingFiles(files, conversationId) # {}
       /\ files' = saveConversation(files, now, conversationId, Change(record))
       /\ \E conversation \in LoadResults(files', conversationId) :
          \E idx1 \in {IF reindex /\ config.semanticIndex
                         THEN indexConversation(index, conversation) ELSE index} :
          \E idxf1 \in {IF reindex /\ config.semanticIndex
                          THEN IndexJson(idx1) ELSE indexFile} :
          \E saved \in (IF autosaves /\ config.autoSave
                          THEN {autoSave(prefs, prefsFile, context, contextFile, idx1, idxf1)}
                                 \cup autoSaveFaults(prefs, prefsFile, context,
                                                     contextFile, idx1, idxf1)
                          ELSE {[result |-> "none",
                                 prefs |-> prefs, prefsFile |-> prefsFile,
                                 context |-> context, contextFile |-> contextFile,
                                 indexFile |-> idxf1]}) :
            /\ index' = idx1
            /\ indexFile' = saved.indexFile
            /\ prefs' = saved.prefs
            /\ prefsFile' = saved.prefsFile
            /\ context' = saved.context
            /\ contextFile' = saved.contextFile
            /\ last' = [op |-> opName, id |-> conversationId,
                        outcome |-> AfterAutoSave(saved.result),
                        autoSave |-> saved.result, at |-> now,
                        indexed |-> IF reindex /\ config.semanticIndex
                                      THEN <<conversation>> ELSE <<>>,
                        indexBefore |-> index]
       /\ Log(conversationId)
       /\ partialCalls' = (partialCalls \/ conversationId = PartialId)

LogNothing(id) == UNCHANGED <<added, ended>>

\* companion-mcp.js:571-589 addDecision, with part_001:90-109
AddDecision ==
  /\ initialized /\ ops < MaxOps
  /\ \E conversationId \in CallIds, decisionPoint \in DecisionPoints,
        decision \in DecisionTexts, reason \in Reasons :
       LET Change(record) == WithDecision(record, decisionPoint, decision, reason)
           Log(id) ==
             /\ added' = (id :> [AddedTo(id) EXCEPT !.decisions =
                                   Append(@, [decisionPoint |-> decisionPoint,
                                              decision |-> decision, reason |-> reason])])
                         @@ added
             /\ UNCHANGED ended
       IN  Mutation("addDecision", conversationId, Change, TRUE, TRUE, Log)
  /\ ops' = ops + 1
  /\ UNCHANGED <<runtimeVars, config, initialized, now, manifest, created>>

\* companion-mcp.js:594-611 addProblemSolution, with part_001:114-133
AddProblemSolution ==
  /\ initialized /\ ops < MaxOps
  /\ \E conversationId \in CallIds, problem \in Problems,
        solution \in Solutions, result \in Results :
       LET Change(record) == WithProblemSolution(record, problem, solution, result)
           Log(id) ==
             /\ added' = (id :> [AddedTo(id) EXCEPT !.problems =
                                   Append(@, [problem |-> problem, solution |-> solution,
                                              result |-> result])])
                         @@ added
             /\ UNCHANGED ended
       IN  Mutation("addProblemSolution", conversationId, Change, TRUE, TRUE, Log)
  /\ ops' = ops + 1
  /\ UNCHANGED <<runtimeVars, config, initialized, now, manifest, created>>

\* companion-mcp.js:703-713 addTodo, with part_001:138-157
AddTodo ==
  /\ initialized /\ ops < MaxOps
  /\ \E conversationId \in CallIds, task \in Tasks, priority \in Priorities :
       LET Change(record) == WithTodo(record, task, priority)
           Log(id) ==
             /\ added' = (id :> [AddedTo(id) EXCEPT !.todos =
                                   Append(@, [task |-> task, completed |-> FALSE,
                                              priority |-> priority])])
                         @@ added
             /\ UNCHANGED ended
       IN  Mutation("addTodo", conversationId, Change, FALSE, TRUE, Log)
  /\ ops' = ops + 1
  /\ UNCHANGED <<runtimeVars, config, initialized, now, manifest, created>>

\* companion-mcp.js:616-628 updateSummary, with part_001:162-174
UpdateSummary ==
  /\ initialized /\ ops < MaxOps
  /\ \E conversationId \in CallIds, summary \in Summaries :
       LET Change(record) == WithSummary(record, summary)
       IN  Mutation("updateSummary", conversationId, Change, TRUE, TRUE, LogNothing)
  /\ ops' = ops + 1
  /\ UNCHANGED <<runtimeVars, config, initialized, now, manifest, created>>

\* companion-mcp.js:633-641 endConversation, with part_001:179-187
EndConversation ==
  /\ initialized /\ ops < MaxOps
  /\ \E conversationId \in CallIds :
       LET Change(record) == WithEndTime(record, now)
           Log(id) == /\ ended' = ended \cup {id}
                      /\ UNCHANGED added
       IN  Mutation("endConversation", conversationId, Change, TRUE, FALSE, Log)
  /\ ops' = ops + 1
  /\ UNCHANGED <<runtimeVars, config, initialized, now, manifest, created>>

\* part_002:129-139 UserPreference.recordCommonTask on loaded preferences: a
\* task not yet listed is pushed and the preferences are saved
WithCommonTask(p, task, t) ==
  IF \E i \in DOMAIN p.commonTasks : p.commonTasks[i] = task
    THEN p
    ELSE SavedPreferences([p EXCEPT !.commonTasks = Append(@, task)], t)

\* companion-mcp.js:718-724 recordCommonTask, with part_002:129-139
RecordCommonTask ==
  /\ initialized /\ ops < MaxOps
  /\ \E task \in Tasks :
       IF prefs = Null
         THEN /\ last' = [op |-> "recordCommonTask", task |-> task,
                          outcome |-> "Preferences not loaded"]
              /\ UNCHANGED <<prefs, prefsFile, context, contextFile, indexFile>>
         ELSE \E p1 \in {WithCommonTask(prefs, task, now)} :
              \E pf1 \in {IF p1 = prefs THEN prefsFile ELSE p1} :
              \E saved \in (IF config.autoSave
                              THEN {autoSave(p1, pf1, context, contextFile, index, indexFile)}
                                     \cup autoSaveFaults(p1, pf1, context, contextFile,
                                                         index, indexFile)
                              ELSE {[result |-> "none", prefs |-> p1, prefsFile |-> pf1,
                                     context |-> context, contextFile |-> contextFile,
                                     indexFile |-> indexFile]}) :
                /\ prefs' = saved.prefs
                /\ prefsFile' = saved.prefsFile
                /\ context' = saved.context
                /\ contextFile' = saved.contextFile
                /\ indexFile' = saved.indexFile
                /\ last' = [op |-> "recordCommonTask", task |-> task,
                            outcome |-> AfterAutoSave(saved.result),
                            autoSave |-> saved.result, at |-> now]
  /\ ops' = ops + 1
  /\ UNCHANGED <<runtimeVars, config, initialized, now, files, manifest, index, created, added, ended,
                 partialCalls>>

\* the day a conversation file was saved on, from its name
DayOfFile(f) == DigitValue(f[2])

\* a cleanup that also deletes the conversation files saved before the cutoff
sweepConversations(fs, t, daysToKeep) ==
  [f \in {g \in DOMAIN fs : DayOfFile(g) * TicksPerDay > CutoffDate(t, daysToKeep)} |-> fs[f]]

\* companion-mcp.js:757-761 cleanupOldMemories calls the index only: the
\* directory conversations/ after the call
cleanupConversations(fs, t, daysToKeep) == fs

\* companion-mcp.js:757-761 cleanupOldMemories, with SemanticIndex.ts:181-198
CleanupOldMemories ==
  /\ initialized /\ ops < MaxOps
  /\ \E daysToKeep \in DaysToKeep :
       /\ IF config.semanticIndex
            THEN /\ index' = clearOldEntries(index, now, daysToKeep)
                 /\ indexFile' = IndexJson(index')
            ELSE UNCHANGED <<index, indexFile>>
       /\ files' = cleanupConversations(files, now, daysToKeep)
       /\ last' = [op |-> "cleanupOldMemories", daysToKeep |-> daysToKeep, outcome |-> "ok",
                   indexBefore |-> index, at |-> now]
  /\ ops' = ops + 1
  /\ UNCHANGED <<runtimeVars, config, initialized, now, manifest, prefs, prefsFile, context,
                 contextFile, created, added, ended, partialCalls>>

\* time passes between two calls
Tick ==
  /\ now < MaxNow
  /\ now' = now + 1
  /\ UNCHANGED <<runtimeVars, config, initialized, files, manifest, index, indexFile, prefs, prefsFile,
                 context, contextFile, ops, last, created, added, ended, partialCalls>>

Next ==
  \/ Initialize
  \/ CreateConversation
  \/ AddDecision
  \/ AddProblemSolution
  \/ AddTodo
  \/ UpdateSummary
  \/ EndConversation
  \/ RecordCommonTask
  \/ CleanupOldMemories
  \/ Tick

Spec == Init /\ [][Next]_vars

(***************************************************************************)
(* Short sessions on one store, and the calls that only read               *)
(***************************************************************************)
\* part_001:75-85 loadConversation
LoadConversation ==
  /\ initialized
  /\ \E conversationId \in CallIds :
     \E result \in LoadResults(files, conversationId) :
       last' = [op |-> "loadConversation", id |-> conversationId, result |-> result]
  /\ UNCHANGED <<runtimeVars, config, initialized, now, files, manifest, index, indexFile, prefs,
                 prefsFile, context, contextFile, ops, created, added, ended, partialCalls>>

\* companion-mcp.js:552-554 getRecentConversations, with part_001:192-205
GetRecentConversations ==
  /\ initialized
  /\ \E sortedFiles \in {SortedFiles(files)} :
     \E limit \in Limits :
     \E names \in {Slice(sortedFiles, limit)} :
       last' = [op |-> "getRecentConversations", limit |-> limit,
                names |-> names, records |-> ReadRecords(files, names)]
  /\ UNCHANGED <<runtimeVars, config, initialized, now, files, manifest, index, indexFile, prefs,
                 prefsFile, context, contextFile, ops, created, added, ended, partialCalls>>

\* companion-mcp.js:544 the score of a retrieval with hits, in hundredths
HitRelevance == 80

\* companion-mcp.js:535-540 the records loaded for the related ids, one load
\* result per id, nulls included
RECURSIVE LoadAll(_, _)
LoadAll(fs, ids) ==
  IF ids = <<>> THEN {<<>>}
  ELSE {<<r>> \o rest : r \in LoadResults(fs, Head(ids)), rest \in LoadAll(fs, Tail(ids))}

NotNull(r) == r # Null

\* companion-mcp.js:520 limit: number = 10
DefaultRetrievalLimit == 10

\* companion-mcp.js:520-547 retrieveMemories, called with the default limit
RetrieveMemories ==
  /\ initialized
  /\ \E query \in Queries :
       IF ~config.semanticIndex
         THEN last' = [op |-> "retrieveMemories", query |-> query,
                       consulted |-> FALSE, relatedIds |-> <<>>,
                       conversations |-> <<>>, relevanceScore |-> 0]
         ELSE \E relatedIds \in {getRelatedConversationIds(index, query,
                                                           DefaultRetrievalLimit)} :
              \E loaded \in LoadAll(files, relatedIds) :
                last' = [op |-> "retrieveMemories", query |-> query,
                         consulted |-> TRUE, relatedIds |-> relatedIds,
                         conversations |-> SelectSeq(loaded, NotNull),
                         relevanceScore |-> IF Len(relatedIds) > 0 THEN HitRelevance ELSE 0]
  /\ UNCHANGED <<runtimeVars, config, initialized, now, files, manifest, index, indexFile, prefs,
                 prefsFile, context, contextFile, ops, created, added, ended, partialCalls>>

ReadOps == {"loadConversation", "getRecentConversations", "retrieveMemories"}

\* A reading call changes nothing a later call depends on, so a behaviour is
\* followed up to its first reading call; before it come at most MaxSessionOps
\* writing calls
Writing == ops < MaxSessionOps /\ last.op \notin ReadOps
Reading == last.op \notin ReadOps

\* creating conversations, adding decisions and asking for records
NextQuery ==
  \/ Initialize
  \/ Writing /\ \E title \in Titles : CreateConversationAs(title, "a")
  \/ Writing /\ AddDecision
  \/ Reading /\ LoadConversation
  \/ Reading /\ GetRecentConversations
  \/ Reading /\ RetrieveMemories
  \/ Tick

\* the preferences and the context are loaded, no index snapshot is on disk
InitQuery == Init /\ config.autoSave /\ config.autoLoad /\ indexFile = Null

SpecQuery == InitQuery /\ [][NextQuery]_vars

\* every writing call, on one conversation (whose uuid is then a name only);
\* a cleanup may close the session
NextSession ==
  \/ Initialize
  \/ ops < MaxSessionOps /\ created = <<>> /\ \E title \in Titles : CreateConversationAs(title, "a")
  \/ ops < MaxSessionOps /\ AddDecision
  \/ ops < MaxSessionOps /\ AddProblemSolution
  \/ ops < MaxSessionOps /\ AddTodo
  \/ ops < MaxSessionOps /\ UpdateSummary
  \/ ops < MaxSessionOps /\ EndConversation
  \/ ops < MaxSessionOps /\ RecordCommonTask
  \/ ops <= MaxSessionOps /\ CleanupOldMemories
  \/ Tick

SpecSession == Init /\ [][NextSession]_vars

(***************************************************************************)
(* The keyword index on its own: SemanticIndex driven through its public   *)
(* methods with records kept in memory                                     *)
(***************************************************************************)
FirstId == ConversationId(1, "a")
SecondId == ConversationId(2, "a")

\* a record as created at tick 1, with one decision
FirstRecord ==
  WithDecision(NewRecord(FirstId, <<"A", "u", "t", "h">>, UserName, Project, 1),
               <<"t", "k">>, <<"u", "s", "e", " ", "J", "W", "T">>, <<"o", "k">>)

\* the same record after addProblemSolution
FirstRecordLater ==
  WithProblemSolution(FirstRecord, <<"s", "l", "o", "w">>, <<"J", "W", "T">>, <<"o", "k">>)

\* a record created at tick 2 whose decision names a keyword twice
SecondRecord ==
  WithDecision(NewRecord(SecondId, <<"J", "W", "T">>, UserName, Project, 2),
               <<"t", "k">>, <<"J", "W", "T">>, <<"j", "w", "t", " ", "o", "k">>)

\* the records that exist at tick t
IndexRecords(t) ==
  {FirstRecord, FirstRecordLater} \cup (IF t >= 2 THEN {SecondRecord} ELSE {})

IndexQueries ==
  { <<"u", "s", "e", " ", "J", "W", "T", " ", "o", "k">>,
    <<"a", "u", "t", "h", " ", "j", "w", "t">> }

InitIndex ==
  /\ config = [semanticIndex |-> TRUE, autoSave |-> TRUE, autoLoad |-> TRUE]
  /\ initialized = FALSE
  /\ now = 1
  /\ files = <<>>
  /\ manifest = Null
  /\ index = <<>>
  /\ indexFile = Null
  /\ prefs = Null
  /\ prefsFile = Null
  /\ context = Null
  /\ contextFile = Null
  /\ ops = 0
  /\ last = [op |-> "new"]
  /\ created = <<>>
  /\ added = <<>>
  /\ ended = {}
  /\ partialCalls = FALSE
  /\ RuntimeIdle

\* SemanticIndex.ts:55-120 indexConversation
IndexConversation ==
  /\ ops < MaxIndexOps
  /\ \E conversation \in IndexRecords(now) :
       /\ index' = indexConversation(index, conversation)
       /\ last' = [op |-> "indexConversation", conversation |-> conversation,
                   before |-> index]
  /\ indexFile' = IndexJson(index')
  /\ ops' = ops + 1
  /\ UNCHANGED <<now, storeVars>>

\* SemanticIndex.ts:125-162 search
Search ==
  /\ \E query \in IndexQueries :
       \E scores \in {QueryScores(index, query)} :
         \E limit \in Limits :
           last' = [op |-> "search", query |-> query, limit |-> limit,
                    scores |-> scores,
                    results |-> SearchResults(index, scores, limit)]
  /\ UNCHANGED <<index, indexFile, ops, now, storeVars>>

\* SemanticIndex.ts:167-176 getRelatedConversationIds
GetRelatedConversationIds ==
  /\ \E query \in IndexQueries :
       \E scores \in {QueryScores(index, query)} :
         \E limit \in Limits :
           \E results \in {SearchResults(index, scores, limit)} :
             last' = [op |-> "getRelatedConversationIds", query |-> query,
                      limit |-> limit, results |-> results,
                      ids |-> RelatedIds(results)]
  /\ UNCHANGED <<index, indexFile, ops, now, storeVars>>

\* SemanticIndex.ts:181-198 clearOldEntries; the log says whether the call
\* repeats the call before it (same days, same clock) and what the index was
\* before the first of the two.  A sweep can always be followed by one more
\* sweep, also at the bound of the calls
ClearOldEntries ==
  /\ \/ ops < MaxIndexOps
     \/ last.op = "clearOldEntries" /\ ~last.repeats
  /\ \E daysToKeep \in DaysToKeep :
       /\ index' = clearOldEntries(index, now, daysToKeep)
       /\ last' = [op |-> "clearOldEntries", daysToKeep |-> daysToKeep, at |-> now,
                   keysBefore |-> Keys(index), before |-> index,
                   repeats |-> /\ last.op = "clearOldEntries"
                               /\ last.daysToKeep = daysToKeep
                               /\ last.at = now,
                   firstBefore |-> IF last.op = "clearOldEntries"
                                     THEN last.before ELSE index]
  /\ indexFile' = IndexJson(index')
  /\ ops' = IF ops < MaxIndexOps THEN ops + 1 ELSE ops
  /\ UNCHANGED <<now, storeVars>>

\* time passes between two calls
TickIndex ==
  /\ now < MaxIndexNow
  /\ now' = now + 1
  /\ UNCHANGED <<index, indexFile, ops, last, storeVars>>

NextIndex ==
  \/ IndexConversation
  \/ Search
  \/ GetRelatedConversationIds
  \/ ClearOldEntries
  \/ TickIndex

SpecIndex == InitIndex /\ [][NextIndex]_vars

(***************************************************************************)
(* Properties                                                              *)
(***************************************************************************)
\* xs occurs in ys, in order
RECURSIVE IsSubsequence(_, _)
IsSubsequence(xs, ys) ==
  IF xs = <<>> THEN TRUE
  ELSE IF ys = <<>> THEN FALSE
  ELSE IF Head(xs) = Head(ys) THEN IsSubsequence(Tail(xs), Tail(ys))
  ELSE IsSubsequence(xs, Tail(ys))

MutatorOps == {"addDecision", "addProblemSolution", "addTodo", "updateSummary",
               "endConversation"}

\* the calls so far went to ids createConversation returned, and these differ
ProperIds ==
  /\ ~partialCalls
  /\ \A i, j \in DOMAIN created : i # j => created[i] # created[j]

\* C1: appends are monotonic.  For every conversation id, every decision,
\* problem/solution pair and todo an earlier call added is still there, in
\* insertion order, in each file the store holds for the id and in each record
\* loadConversation can return for it.
C1_AppendsMonotonic ==
  ProperIds =>
    \A id \in Range(created) :
      /\ \A f \in MatchingFiles(files, id) :
           /\ IsSubsequence(Map(DecisionRow, AddedTo(id).decisions), files[f])
           /\ IsSubsequence(Map(ProblemRow, AddedTo(id).problems), files[f])
           /\ IsSubsequence(Map(TodoLine, AddedTo(id).todos), files[f])
      /\ \A record \in LoadResults(files, id) :
           /\ IsSubsequence(AddedTo(id).decisions, record.keyDecisions)
           /\ IsSubsequence(AddedTo(id).problems, record.problemsAndSolutions)
           /\ IsSubsequence(AddedTo(id).todos, record.todos)

\* SemanticIndex.ts:125 search(query, limit = 10)
DefaultSearchLimit == 10

SharesKeyword(query, text) ==
  Range(extractKeywordsFromString(query)) \cap Range(extractKeywordsFromString(text)) # {}

MatchesDecision(query, d) == SharesKeyword(query, d.decision) \/ SharesKeyword(query, d.reason)

\* no entry of another conversation stands under a keyword of the query, and
\* no decision of another conversation shares a keyword with it
OnlyMatch(query, id) ==
  /\ \A kw \in Range(extractKeywordsFromString(query)) :
       kw \in Keys(index) =>
         \A e \in Range(GetBucket(index, kw)) : e.conversationId = id
  /\ \A other \in Range(created) \ {id} :
       \A d \in Range(AddedTo(other).decisions) : ~MatchesDecision(query, d)

\* C2: with semantic indexing enabled, once the coordinator's addDecision has
\* returned for conversation c, search(q) for a query q sharing a keyword with
\* the decision or reason text is non-empty and its top entry belongs to c,
\* when no other conversation matches q.
C2_DecisionIsFound ==
  (config.semanticIndex /\ ProperIds) =>
    \A id \in Range(created) :
      \A d \in Range(AddedTo(id).decisions) :
        \A query \in Queries :
          (MatchesDecision(query, d) /\ OnlyMatch(query, id)) =>
            LET results == search(index, query, DefaultSearchLimit)
            IN  results # <<>> /\ results[1].conversationId = id

\* C3: every id createConversation returns differs from every id it returned
\* before, also within one millisecond.
C3_IdsUnique ==
  \A i, j \in DOMAIN created : i # j => created[i] # created[j]

\* the store holds no record carrying the id
NoStoredRecord(fs, id) ==
  \A f \in DOMAIN fs : parseConversationMarkdown(fs[f]).metadata.conversationId # id

\* C4: a mutating call with an id that has no stored record fails with
\* not-found and changes nothing: no conversation file, not the index, not
\* the singleton stores.
C4_MissingIdChangesNothing ==
  [][ (ops' = ops + 1 /\ last'.op \in MutatorOps /\ NoStoredRecord(files, last'.id)) =>
        /\ last'.outcome = "not found"
        /\ UNCHANGED <<files, index, indexFile, prefs, prefsFile, context, contextFile>>
    ]_vars

\* C5: for every record loadConversation returns, the end time is empty
\* exactly if endConversation has not been applied to the conversation.
C5_EndTimeEmptyIffOpen ==
  ProperIds =>
    \A id \in Range(created) :
      \A record \in LoadResults(files, id) :
        (record.metadata.endTime = <<>>) <=> (id \notin ended)

\* the end time a file shows is empty: blank, or the marker written for a
\* blank end time
ShowsNoEndTime(content) ==
  LET endTime == parseConversationMarkdown(content).metadata.endTime
  IN  endTime = <<>> \/ endTime = InProgress

\* C6: once endConversation has returned for a conversation, no later
\* mutating call writes a record of it whose end time is empty.
C6_EndTimeNeverCleared ==
  [][ (ops' = ops + 1 /\ last'.op \in MutatorOps /\ ProperIds') =>
        \A id \in ended :
          \A f \in MatchingFiles(files', id) :
            ShowsNoEndTime(files'[f]) => (f \in DOMAIN files /\ files[f] = files'[f])
    ]_vars

\* C7: search returns at most limit entries with pairwise different entry
\* ids, each carrying its accumulated score, in non-increasing score order, and
\* no scored id that was left out has a score above a returned one
C7_SearchTopK ==
  last.op = "search" =>
    /\ Len(last.results) <= last.limit
    /\ \A i, j \in DOMAIN last.results :
         i # j => last.results[i].id # last.results[j].id
    /\ \A i \in DOMAIN last.results :
         \E k \in DOMAIN last.scores :
           /\ last.scores[k].id = last.results[i].id
           /\ last.scores[k].score = last.results[i].relevanceScore
    /\ \A i, j \in DOMAIN last.results :
         i < j => last.results[i].relevanceScore >= last.results[j].relevanceScore
    /\ \A k \in DOMAIN last.scores :
         (\A i \in DOMAIN last.results : last.results[i].id # last.scores[k].id)
           => \A i \in DOMAIN last.results :
                last.scores[k].score <= last.results[i].relevanceScore

\* a search cut by its limit: two entries of different score returned, a
\* scored one left out
C7_Witness ==
  /\ last.op = "search"
  /\ last.limit = 2
  /\ Len(last.results) = 2
  /\ last.results[1].relevanceScore > last.results[2].relevanceScore
  /\ Len(last.scores) > 2

\* the base weight of an entry kind (SemanticIndex.ts:64, 86, 108)
BaseWeight(type) ==
  CASE type = "conversation" -> ConversationWeight
    [] type = "decision" -> DecisionWeight
    [] type = "problem" -> ProblemWeight

\* the query keywords whose bucket holds an entry of this id
MatchedKeywords(idx, query, id) ==
  { kw \in Range(extractKeywordsFromString(query)) :
      /\ kw \in Keys(idx)
      /\ \E k \in DOMAIN GetBucket(idx, kw) : GetBucket(idx, kw)[k].id = id }

\* C8: the score search attaches to an entry is the entry's base weight times
\* the number of query keywords the entry matches
C8_ScoreIsWeightTimesMatches ==
  last.op = "search" =>
    \A i \in DOMAIN last.results :
      last.results[i].relevanceScore =
        BaseWeight(last.results[i].type)
          * Cardinality(MatchedKeywords(index, last.query, last.results[i].id))

\* C9: getRelatedConversationIds returns exactly the owners of the entries
\* search returns, each once, in order of first appearance, at most limit ids
C9_RelatedIdsDistinctOwners ==
  last.op = "getRelatedConversationIds" =>
    LET FirstAt(id) ==
          CHOOSE i \in DOMAIN last.results :
            /\ last.results[i].conversationId = id
            /\ \A j \in 1..(i - 1) : last.results[j].conversationId # id
    IN  /\ Range(last.ids) = { last.results[i].conversationId : i \in DOMAIN last.results }
        /\ \A i, j \in DOMAIN last.ids : i # j => last.ids[i] # last.ids[j]
        /\ \A i, j \in DOMAIN last.ids : i < j => FirstAt(last.ids[i]) < FirstAt(last.ids[j])
        /\ Len(last.ids) <= last.limit

\* three entries returned, two of them owned by the same conversation
C9_Witness ==
  /\ last.op = "getRelatedConversationIds"
  /\ Len(last.results) = 3
  /\ Len(last.ids) = 2
  /\ last.results[1].conversationId # last.results[2].conversationId

\* C10: every keyword key of the index maps to a non-empty list of entries
C10_NoEmptyBuckets ==
  \A i \in DOMAIN index : index[i].entries # <<>>

\* a sweep that emptied and deleted one bucket and kept another
C10_Witness ==
  /\ last.op = "clearOldEntries"
  /\ index # <<>>
  /\ \E kw \in last.keysBefore : kw \notin Keys(index)

\* the entries of the bucket of kw, none if the index has no such key
EntriesUnder(idx, kw) == IF kw \in Keys(idx) THEN GetBucket(idx, kw) ELSE <<>>

\* C11: clearOldEntries leaves in each bucket exactly the earlier entries
\* whose timestamp is after the cutoff (the clock at the call minus daysToKeep
\* days), in their order; a bucket left empty is deleted, no bucket and no
\* entry is added, and an entry stamped exactly at the cutoff goes
C11_SweepKeepsExactlyRecent ==
  last.op = "clearOldEntries" =>
    LET cutoff == last.at - last.daysToKeep * TicksPerDay
        After(e) == IsValidDate(e.timestamp) /\ ParseDate(e.timestamp) > cutoff
    IN  /\ Keys(index) \subseteq Keys(last.before)
        /\ \A i, j \in DOMAIN index : i # j => index[i].key # index[j].key
        /\ \A kw \in Keys(last.before) :
             EntriesUnder(index, kw) = SelectSeq(GetBucket(last.before, kw), After)
        /\ \A i \in DOMAIN index : index[i].entries # <<>>

\* a sweep that met an entry stamped exactly at the cutoff and a later one:
\* the first is gone, the second is kept
C11_Witness ==
  /\ last.op = "clearOldEntries"
  /\ index # <<>>
  /\ \E b \in DOMAIN last.before :
       \E k \in DOMAIN last.before[b].entries :
         /\ ParseDate(last.before[b].entries[k].timestamp)
              = last.at - last.daysToKeep * TicksPerDay
         /\ \A i \in DOMAIN index :
              \A j \in DOMAIN index[i].entries :
                index[i].entries[j] # last.before[b].entries[k]

\* C12: a clearOldEntries call that repeats the call before it, with the same
\* days and the same clock and no indexing in between, leaves the index as the
\* first call left it
C12_SweepIdempotent ==
  (last.op = "clearOldEntries" /\ last.repeats) => index = last.before

\* the first of two equal sweeps removed entries and kept others, the second
\* ran on what was left
C12_Witness ==
  /\ last.op = "clearOldEntries"
  /\ last.repeats
  /\ index # <<>>
  /\ last.firstBefore # last.before

\* the number of conversation-level entries of a conversation in a list
RECURSIVE CopiesOf(_, _)
CopiesOf(id, entries) ==
  IF entries = <<>> THEN 0
  ELSE (IF Head(entries).type = "conversation" /\ Head(entries).id = id THEN 1 ELSE 0)
         + CopiesOf(id, Tail(entries))

\* C19: indexConversation only appends.  Every earlier bucket is still there,
\* in its place, with its earlier entries as a prefix of its new content; each
\* keyword bucket of the record holds one more copy of the record's
\* conversation-level entry than before (k copies after k calls on an index
\* that started empty), and getStats().totalEntries does not go down
C19_IndexingOnlyAppends ==
  last.op = "indexConversation" =>
    /\ Len(index) >= Len(last.before)
    /\ \A i \in DOMAIN last.before :
         /\ index[i].key = last.before[i].key
         /\ Len(index[i].entries) >= Len(last.before[i].entries)
         /\ SubSeq(index[i].entries, 1, Len(last.before[i].entries))
              = last.before[i].entries
    /\ \A kw \in Range(extractKeywords(last.conversation)) :
         CopiesOf(last.conversation.metadata.conversationId, EntriesUnder(index, kw))
           = CopiesOf(last.conversation.metadata.conversationId,
                      EntriesUnder(last.before, kw)) + 1
    /\ getStats(index).totalEntries >= getStats(last.before).totalEntries

\* the same conversation indexed three times on an index that started empty:
\* three copies of its conversation-level entry under "auth"
C19_Witness ==
  /\ last.op = "indexConversation"
  /\ ops = 3
  /\ CopiesOf(FirstId, EntriesUnder(index, <<"a", "u", "t", "h">>)) = 3

\* C17: loading the keyword index never fails because of the state of the
\* index file: with the file missing or corrupt, initialize completes without
\* an error and the index is empty
C17_IndexLoadNeverFails ==
  (last.op = "initialize" /\ config.semanticIndex
     /\ last.indexFile \in {Null, CorruptIndexFile})
    => (last.outcome = "ok" /\ initialized /\ index = <<>>)

\* C13: cleanupOldMemories(daysToKeep) changes only the keyword index and its
\* snapshot on disk: the set of conversation files and the content of each,
\* the user preferences and the project context (in memory and on disk) are
\* the same after the call as before.
C13_CleanupChangesOnlyIndex ==
  [][ (ops' = ops + 1 /\ last'.op = "cleanupOldMemories") =>
        /\ DOMAIN files' = DOMAIN files
        /\ \A f \in DOMAIN files : files'[f] = files[f]
        /\ UNCHANGED <<prefs, prefsFile, context, contextFile>>
    ]_vars

\* a cleanup that took entries out of the index of a store holding a
\* conversation file, preferences and a context
C13_Witness ==
  /\ last.op = "cleanupOldMemories"
  /\ last.indexBefore # <<>> /\ index # last.indexBefore
  /\ files # <<>> /\ prefsFile # Null /\ contextFile # Null

C15_ScoreTellsHits ==
  last.op = "retrieveMemories" =>
    IF ~config.semanticIndex
      THEN ~last.consulted /\ last.conversations = <<>> /\ last.relevanceScore = 0
      ELSE /\ last.relevanceScore \in {0, HitRelevance}
           /\ last.relevanceScore = HitRelevance <=> last.conversations # <<>>

AutoSavingOps == {"addDecision", "addProblemSolution", "updateSummary", "addTodo",
                  "recordCommonTask"}

\* the last call's auto-save step met a failing save
AutoSaveFailed ==
  /\ last.op \in AutoSavingOps
  /\ "autoSave" \in DOMAIN last
  /\ last.autoSave = "failed"

\* what the last call wrote before its auto-save step is on disk
ChangeKept ==
  IF last.op = "recordCommonTask"
    THEN /\ \E i \in DOMAIN prefs.commonTasks : prefs.commonTasks[i] = last.task
         /\ \E i \in DOMAIN prefsFile.commonTasks : prefsFile.commonTasks[i] = last.task
    ELSE \E f \in MatchingFiles(files, last.id) :
           \E line \in Range(files[f]) :
             CASE last.op = "addDecision" ->
                    line = DecisionRow(AddedTo(last.id).decisions[Len(AddedTo(last.id).decisions)])
               [] last.op = "addProblemSolution" ->
                    line = ProblemRow(AddedTo(last.id).problems[Len(AddedTo(last.id).problems)])
               [] last.op = "addTodo" ->
                    line = TodoLine(AddedTo(last.id).todos[Len(AddedTo(last.id).todos)])
               [] last.op = "updateSummary" -> line \in Summaries

\* C16: when auto-save is configured and a save of the auto-save step fails
\* (preferences, context or index) in addDecision, addProblemSolution,
\* updateSummary, addTodo or recordCommonTask, the call still returns without
\* an error and the change it had written is kept.
C16_AutoSaveFailureSwallowed ==
  (config.autoSave /\ AutoSaveFailed) => (last.outcome = "ok" /\ ChangeKept)

\* an addDecision whose auto-save step was refused a write although the
\* preferences and the context are loaded
C16_Witness ==
  /\ config.autoSave /\ AutoSaveFailed
  /\ last.op = "addDecision" /\ prefs # Null /\ context # Null

\* C18: on an initialized store, loadConversation(id) for an id that no stored
\* file carries returns null, not an error, and leaves the store unchanged.
C18_UnknownIdLoadsNull ==
  (last.op = "loadConversation" /\ NoStoredRecord(files, last.id)) => last.result = Null

CoordinatorOps == {"addDecision", "addProblemSolution", "updateSummary", "endConversation"}

\* step 1: the record store saved a file for the id on the day of the call
MutationWritten ==
  \E f \in MatchingFiles(files, last.id) : startsWith(f, formatDate(last.at))

\* step 2: with semantic indexing the record was read back from the store as
\* the mutation left it and its entries were added to the index; without it
\* the index was left alone
Reindexed ==
  IF config.semanticIndex
    THEN /\ Len(last.indexed) = 1
         /\ last.indexed[1] \in LoadResults(files, last.id)
         /\ index = indexConversation(last.indexBefore, last.indexed[1])
    ELSE last.indexed = <<>> /\ index = last.indexBefore

\* step 3: the auto-save step ran on the stores as step 2 left them; unless a
\* save failed the two singleton stores carry the time of the call on disk
\* and the snapshot is the index with the new entries
Persisted ==
  /\ last.autoSave \in {"saved", "failed"}
  /\ last.autoSave = "saved" =>
       /\ prefsFile = prefs /\ prefs.lastUpdated = toISOString(last.at)
       /\ contextFile = context /\ context.lastUpdated = toISOString(last.at)
       /\ config.semanticIndex => indexFile = IndexJson(index)

\* C20 as stated: addDecision, addProblemSolution, updateSummary and
\* endConversation each perform, in this order and without skipping a step,
\* the record-store mutation, the reload and re-index of the record (when
\* semantic indexing is enabled) and the persist of the singleton stores
\* when auto-save is configured.
C20_StepsInOrder ==
  (last.op \in CoordinatorOps /\ last.outcome = "ok") =>
    /\ MutationWritten
    /\ Reindexed
    /\ IF config.autoSave THEN Persisted ELSE last.autoSave = "none"

\* C20 amended: addDecision, addProblemSolution and updateSummary perform the
\* three steps in that order; endConversation performs the mutation and the
\* reload and re-index only, it has no auto-save step.
C20_StepsInOrderButEnd ==
  (last.op \in CoordinatorOps /\ last.outcome = "ok") =>
    /\ MutationWritten
    /\ Reindexed
    /\ IF config.autoSave /\ last.op # "endConversation"
         THEN Persisted ELSE last.autoSave = "none"

\* an endConversation that re-indexed the record with auto-save configured
C20_Witness ==
  /\ last.op = "endConversation" /\ last.outcome = "ok"
  /\ config.autoSave /\ config.semanticIndex
  /\ index # last.indexBefore /\ prefs # Null /\ context # Null

\* C21: every save of a record with a given conversation id writes to the
\* same path, so after any sequence of create and mutating calls (also across
\* a change of calendar day and for any title) the store holds exactly one
\* file per conversation id.
C21_OneFilePerId ==
  \A i \in DOMAIN created : Cardinality(MatchingFiles(files, created[i])) = 1

\* part_001:30-31 the start time createConversation gave the conversation with
\* this id: the id carries the clock value of the same call
StartTimeOf(id) == toISOString(DigitValue(id[6]))

\* C22: every index entry's timestamp equals the start time createConversation
\* assigned to its owning conversation, after any number of read-modify-write
\* cycles on the record.
C22_EntryTimestampIsStartTime ==
  \A i \in DOMAIN AllEntries(index) :
    LET entry == AllEntries(index)[i]
    IN  entry.conversationId \in Range(created) =>
          entry.timestamp = StartTimeOf(entry.conversationId)

\* the conversation owning the entry was created, less than daysToKeep days
\* before the clock value t
StartedWithin(entry, t, daysToKeep) ==
  /\ entry.conversationId \in Range(created)
  /\ t - DigitValue(entry.conversationId[6]) < daysToKeep * TicksPerDay

\* C23: an index entry that a coordinator operation created for a
\* conversation started less than daysToKeep days ago is still in the index,
\* and still found by search, after cleanupOldMemories(daysToKeep).
C23_RecentEntriesSurviveCleanup ==
  last.op = "cleanupOldMemories" =>
    \A i \in DOMAIN AllEntries(last.indexBefore) :
      LET entry == AllEntries(last.indexBefore)[i]
      IN  StartedWithin(entry, last.at, last.daysToKeep) =>
            /\ \E j \in DOMAIN AllEntries(index) : AllEntries(index)[j] = entry
            /\ \A k \in DOMAIN entry.keywords :
                 \E r \in Range(search(index, entry.keywords[k], DefaultSearchLimit)) :
                   r.id = entry.id


(***************************************************************************)
(* Two mutating calls on one record, interleaved at their awaits           *)
(* (part_001:63-85, 90-157; the awaits are storage.list, storage.read and  *)
(* storage.write)                                                          *)
(***************************************************************************)
\* the number of mutating calls in flight
MaxCalls == 2

\* the record the calls are made on, created at tick 1
RaceId == ConversationId(1, "a")

\* the changes the callers ask for: the operation and the item it appends
RaceChanges ==
  { [op |-> "addDecision",
     item |-> [decisionPoint |-> <<"t", "k">>, decision |-> <<"J", "W", "T">>,
               reason |-> <<"o", "k">>]],
    [op |-> "addProblemSolution",
     item |-> [problem |-> <<"s", "l", "o", "w">>, solution |-> <<"J", "W", "T">>,
               result |-> <<"o", "k">>]],
    [op |-> "addTodo",
     item |-> [task |-> <<"d", "o", "c", "s">>, completed |-> FALSE,
               priority |-> "medium"]] }

\* a change that leaves the record as it was read
Unchanged(record, change) == record

\* part_001:101-107, 125-131, 148-155 the synchronous part between the read
\* and the save
Changed(record, change) ==
  CASE change.op = "addDecision" ->
         WithDecision(record, change.item.decisionPoint, change.item.decision,
                      change.item.reason)
    [] change.op = "addProblemSolution" ->
         WithProblemSolution(record, change.item.problem, change.item.solution,
                             change.item.result)
    [] change.op = "addTodo" ->
         WithTodo(record, change.item.task, change.item.priority)

\* the line of the file that shows the change
RowOf(change) ==
  CASE change.op = "addDecision" -> DecisionRow(change.item)
    [] change.op = "addProblemSolution" -> ProblemRow(change.item)
    [] change.op = "addTodo" -> TodoLine(change.item)

\* the calls that have not finished / that have returned
InFlight == {i \in DOMAIN calls : calls[i].pc # "done"}
Returned == {i \in DOMAIN calls : calls[i].pc = "done" /\ calls[i].outcome = "ok"}

\* the memory-system state the racing calls leave alone
raceOthers == << config, initialized, manifest, index, indexFile, prefs, prefsFile,
                 context, contextFile, ops, last, created, added, ended,
                 partialCalls, rpcVars, lifecycleVars, skillVars >>

\* a record exists; nothing is in flight
InitRace ==
  /\ config = [semanticIndex |-> TRUE, autoSave |-> TRUE, autoLoad |-> TRUE]
  /\ initialized = FALSE
  /\ now = 1
  /\ \E title \in Titles :
       files = saveConversation(<<>>, 1, RaceId,
                                NewRecord(RaceId, title, UserName, Project, 1))
  /\ manifest = Null
  /\ index = <<>>
  /\ indexFile = Null
  /\ prefs = Null
  /\ prefsFile = Null
  /\ context = Null
  /\ contextFile = Null
  /\ ops = 0
  /\ last = [op |-> "new"]
  /\ created = <<RaceId>>
  /\ added = <<>>
  /\ ended = {}
  /\ partialCalls = FALSE
  /\ calls = <<>>
  /\ RpcIdle
  /\ LifecycleIdle
  /\ SkillsIdle

\* part_001:90-96 a caller invokes a mutator; it runs up to its first await,
\* the directory listing of loadConversation (part_001:76)
CallMutator ==
  /\ Len(calls) < MaxCalls
  /\ \E change \in RaceChanges :
       calls' = Append(calls, [change |-> change, pc |-> "list", file |-> <<>>,
                               name |-> <<>>, content |-> <<>>,
                               unwrittenAtRead |-> {}, returnedAtWrite |-> {},
                               outcome |-> "pending"])
  /\ UNCHANGED <<files, now, raceOthers>>

\* part_001:76-81 the listing arrives: find() picks a file of the id, or the
\* call throws 'not found'; with a file it runs up to the await of the read
ListFiles(i) ==
  /\ calls[i].pc = "list"
  /\ IF MatchingFiles(files, RaceId) = {}
       THEN calls' = [calls EXCEPT ![i].pc = "done", ![i].outcome = "not found"]
       ELSE \E f \in MatchingFiles(files, RaceId) :
              calls' = [calls EXCEPT ![i].pc = "read", ![i].file = f]
  /\ UNCHANGED <<files, now, raceOthers>>

\* part_001:83-84, 101-108, 67-69 the content arrives: parse it, append the
\* item, build the name and the text of the file, and run up to the await of
\* the write
ReadFile(i) ==
  /\ calls[i].pc = "read"
  /\ \E record \in {Changed(parseConversationMarkdown(files[calls[i].file]),
                            calls[i].change)} :
       calls' = [calls EXCEPT ![i].pc = "write",
                              ![i].name = FileName(now, RaceId, record),
                              ![i].content = formatConversationMarkdown(record),
                              ![i].unwrittenAtRead = InFlight \ {i}]
  /\ UNCHANGED <<files, now, raceOthers>>

\* part_000:51-63 the write happens and the call returns
WriteFile(i) ==
  /\ calls[i].pc = "write"
  /\ files' = (calls[i].name :> calls[i].content) @@ files
  /\ calls' = [calls EXCEPT ![i].pc = "done", ![i].outcome = "ok",
                            ![i].returnedAtWrite = Returned]
  /\ UNCHANGED <<now, raceOthers>>

\* the clock advances while calls are in flight
TickRace ==
  /\ now < MaxNow
  /\ now' = now + 1
  /\ UNCHANGED <<files, calls, raceOthers>>

NextRace ==
  \/ CallMutator
  \/ \E i \in DOMAIN calls : ListFiles(i)
  \/ \E i \in DOMAIN calls : ReadFile(i)
  \/ \E i \in DOMAIN calls : WriteFile(i)
  \/ TickRace

SpecRace == InitRace /\ [][NextRace]_vars

\* b read the record while a had not written yet, wrote after a returned,
\* and no call has written since
Overtaken(a, b) ==
  /\ a \in Returned /\ b \in Returned
  /\ a \in calls[b].unwrittenAtRead
  /\ a \in calls[b].returnedAtWrite
  /\ Returned \ {b} \subseteq calls[b].returnedAtWrite
  /\ calls[a].name = calls[b].name
  /\ calls[a].change # calls[b].change

\* C24: the mutators take no lock between their read and their write: when
\* call b reads the record before call a has written and writes after a has
\* returned, both return normally and the stored file is the one b wrote,
\* with b's item and without a's (the update of a is lost)
C24_LastWriteWins ==
  \A a, b \in DOMAIN calls :
    Overtaken(a, b) =>
      /\ files[calls[b].name] = calls[b].content
      /\ \E k \in DOMAIN files[calls[b].name] :
           files[calls[b].name][k] = RowOf(calls[b].change)
      /\ \A k \in DOMAIN files[calls[b].name] :
           files[calls[b].name][k] # RowOf(calls[a].change)

\* both calls have returned and the update of the first is lost
C24_Witness ==
  \E a, b \in DOMAIN calls :
    /\ Overtaken(a, b)
    /\ \A f \in MatchingFiles(files, RaceId) :
         \A k \in DOMAIN files[f] : files[f][k] # RowOf(calls[a].change)


(***************************************************************************)
(* Index mutations and searches, interleaved at the awaits                 *)
(* (SemanticIndex.ts:47-50, 55-120, 125-162, 181-198)                      *)
(***************************************************************************)
\* an indexing call suspended after the conversation entry, before the
\* decision and problem entries
IndexingSuspendedMidway(idx, conversation) ==
  << PushAll(idx, extractKeywords(conversation), ConversationEntry(conversation)),
     indexConversation(idx, conversation) >>

\* SemanticIndex.ts:55-119 the in-memory index at each await of
\* indexConversation: the loops of lines 66-117 have no await, the only one
\* is the save of line 119
IndexingSuspensions(idx, conversation) == << indexConversation(idx, conversation) >>

\* SemanticIndex.ts:181-197 the in-memory index at each await of
\* clearOldEntries: the loop of lines 185-195 has no await, the only one is
\* the save of line 197
SweepSuspensions(idx, t, daysToKeep) == << clearOldEntries(idx, t, daysToKeep) >>

\* the memory-system state the index calls leave alone
indexRaceOthers == << config, initialized, files, manifest, prefs, prefsFile, context,
                      contextFile, ops, created, added, ended, partialCalls, rpcVars, lifecycleVars, skillVars >>

\* a caller invokes a mutation of the index: it runs up to its first await.
\* before and whole are history: the index the call found and the index
\* after the whole mutation
StartIndexCall(op, steps, whole) ==
  /\ index' = Head(steps)
  /\ calls' = Append(calls, [op |-> op, pc |-> "suspended", before |-> index,
                             whole |-> whole, rest |-> Tail(steps),
                             snapshot |-> IF Tail(steps) = <<>>
                                            THEN IndexJson(Head(steps)) ELSE Null])
  /\ UNCHANGED <<indexFile, now, last, indexRaceOthers>>

\* SemanticIndex.ts:55-119 indexConversation is called
CallIndexConversation ==
  /\ Len(calls) < MaxCalls
  /\ \E conversation \in IndexRecords(now) :
       StartIndexCall("indexConversation", IndexingSuspensions(index, conversation),
                      indexConversation(index, conversation))

\* SemanticIndex.ts:181-197 clearOldEntries is called
CallClearOldEntries ==
  /\ Len(calls) < MaxCalls
  /\ \E daysToKeep \in DaysToKeep :
       StartIndexCall("clearOldEntries", SweepSuspensions(index, now, daysToKeep),
                      clearOldEntries(index, now, daysToKeep))

\* SemanticIndex.ts:47-50, 119, 197 a suspended call goes on: to its next
\* await, or, in the save, the write of the snapshot happens and the call
\* returns
ResumeIndexCall(i) ==
  /\ calls[i].pc = "suspended"
  /\ IF calls[i].rest # <<>>
       THEN /\ index' = Head(calls[i].rest)
            /\ calls' = [calls EXCEPT ![i].rest = Tail(@),
                                      ![i].snapshot = IF Tail(calls[i].rest) = <<>>
                                                        THEN IndexJson(Head(calls[i].rest))
                                                        ELSE Null]
            /\ UNCHANGED indexFile
       ELSE /\ indexFile' = calls[i].snapshot
            /\ calls' = [calls EXCEPT ![i].pc = "done"]
            /\ UNCHANGED index
  /\ UNCHANGED <<now, last, indexRaceOthers>>

\* SemanticIndex.ts:125-162 search has no await: it runs to its end where it
\* is called
SearchBetween ==
  /\ \E query \in IndexQueries :
       last' = [op |-> "search", query |-> query, seen |-> index,
                results |-> search(index, query, DefaultSearchLimit)]
  /\ UNCHANGED <<index, indexFile, now, calls, indexRaceOthers>>

NextIndexRace ==
  \/ CallIndexConversation
  \/ CallClearOldEntries
  \/ \E i \in DOMAIN calls : ResumeIndexCall(i)
  \/ SearchBetween
  \/ TickIndex

SpecIndexRace == InitIndex /\ [][NextIndexRace]_vars

\* C25: a search that runs between the steps of indexing and sweeping calls
\* sees the index as it is before or after a whole mutation, never in between
C25_SearchSeesWholeMutations ==
  last.op = "search" =>
    \/ last.seen = <<>>
    \/ \E i \in DOMAIN calls : last.seen = calls[i].whole

\* a search ran while an indexing call that added several entries and a sweep
\* that evicted entries were both suspended in their save
C25_Witness ==
  /\ last.op = "search"
  /\ \E i, j \in DOMAIN calls :
       /\ calls[i].op = "indexConversation" /\ calls[i].pc = "suspended"
       /\ Len(AllEntries(calls[i].whole)) >= Len(AllEntries(calls[i].before)) + 2
       /\ calls[j].op = "clearOldEntries" /\ calls[j].pc = "suspended"
       /\ Len(AllEntries(calls[j].whole)) < Len(AllEntries(calls[j].before))
       /\ last.seen = calls[IF i < j THEN j ELSE i].whole


(***************************************************************************)
(* The stdio server: main (companion-mcp.js:50-120) and runMCPServer       *)
(* (part_008:36-111)                                                       *)
(***************************************************************************)
\* the number of chunks the client writes
MaxChunks == 3

\* the error codes of the two programs
ServerErrorCode == 0 - 32000
MethodNotFoundCode == 0 - 32601
ParseErrorCode == 0 - 32700

\* a request is written as the symbols "{", the method, "params" if it has
\* parameters, its id, "}"; an absent value is <<>>, a present one <<v>>
IdTokens == {"1", "2", "3", "4", "5"}
ToolName == "companion_save_conversation"

InitializeText == <<"{", "initialize", "1", "}">>
ListText == <<"{", "tools/list", "2", "}">>
CallText == <<"{", "tools/call", "params", "3", "}">>
CallWithoutParamsText == <<"{", "tools/call", "4", "}">>
UnknownMethodText == <<"{", "ping", "5", "}">>
\* a request cut before its end, and a line of white space
CutText == <<"{", "tools/list">>
BlankText == <<" ">>

\* what the client writes in one piece: whole lines, two lines at once, and
\* a line in two pieces
Chunks ==
  { InitializeText \o <<"\n">>, ListText \o <<"\n">>, CallText \o <<"\n">>,
    CallWithoutParamsText \o <<"\n">>, UnknownMethodText \o <<"\n">>,
    CutText \o <<"\n">>, BlankText \o <<"\n">>,
    CallText \o <<"\n">> \o ListText \o <<"\n">>,
    <<"{", "tools/call">>, <<"params", "3", "}", "\n">> }

\* the tokens of s that are in the set
Only(s, set) == SelectSeq(s, LAMBDA c : c \in set)

\* JSON.parse of a line: white space around the value is skipped; a text
\* that does not close is a SyntaxError
JSONParse(line) ==
  LET t == trim(line) IN
  IF Len(t) >= 3 /\ t[1] = "{" /\ t[Len(t)] = "}"
    THEN [ok |-> TRUE,
          value |-> [method |-> t[2],
                     params |-> IF Only(t, {"params"}) # <<>>
                                  THEN <<[name |-> ToolName]>> ELSE <<>>,
                     id |-> SubSeq(Only(t, IdTokens), 1, 1)]]
    ELSE [ok |-> FALSE]

\* companion-mcp.js:25-31, part_008:55-58, 96 JSON.stringify of a response
\* with a result: a key whose value is undefined is left out
formatResponse(result, id) ==
  [jsonrpc |-> "2.0", result |-> <<result>>, error |-> <<>>, id |-> id]

\* companion-mcp.js:36-45, part_008:89-92, 98-106 JSON.stringify of a
\* response with an error
formatError(code, message, id) ==
  [jsonrpc |-> "2.0", result |-> <<>>,
   error |-> <<[code |-> code, message |-> message]>>, id |-> id]

\* companion-mcp.js:72-111 one line in main: the response it writes, or the
\* request whose tools/call it awaits
mainLine(line) ==
  LET parsed == JSONParse(line) IN
  IF ~parsed.ok
    THEN [kind |-> "write",
          response |-> formatError(ServerErrorCode, "Invalid JSON", <<>>)]
  ELSE LET request == parsed.value IN
    CASE request.method = "initialize" ->
           [kind |-> "write", response |-> formatResponse("serverInfo", request.id)]
      [] request.method = "tools/list" ->
           [kind |-> "write", response |-> formatResponse("tools", request.id)]
      [] request.method = "tools/call" ->
           IF request.params = <<>>
             \* destructuring undefined throws a TypeError; the catch of
             \* line 108 formats it with id undefined
             THEN [kind |-> "write",
                   response |-> formatError(ServerErrorCode, "TypeError", <<>>)]
             ELSE [kind |-> "await", request |-> request]
      [] OTHER ->
           [kind |-> "write",
            response |-> formatError(ServerErrorCode, "Unknown method", request.id)]

\* part_008:54-106 one line in runMCPServer; the catch of line 97 parses the
\* line once more for the id: when the line is no JSON that second parse
\* throws out of the loop, and the rejection ends the process (part_008:116)
runMCPServerLine(line) ==
  LET parsed == JSONParse(line) IN
  IF ~parsed.ok
    THEN [kind |-> "exit"]
  ELSE LET request == parsed.value IN
    CASE request.method = "initialize" ->
           [kind |-> "write", response |-> formatResponse("serverInfo", request.id)]
      [] request.method = "tools/list" ->
           [kind |-> "write", response |-> formatResponse("tools", request.id)]
      [] request.method = "tools/call" ->
           IF request.params = <<>>
             THEN [kind |-> "write",
                   response |-> formatError(ParseErrorCode, "TypeError", request.id)]
             ELSE [kind |-> "await", request |-> request]
      [] OTHER ->
           [kind |-> "write",
            response |-> formatError(MethodNotFoundCode, "Method not found",
                                     request.id)]

\* companion-mcp.js:69-111, part_008:52-107 the loop over the lines of a
\* chunk, up to the first tools/call it has to await: out is stdout, the
\* lines carry their number n of arrival
RECURSIVE Serve(_, _, _)
Serve(prog, lines, out) ==
  IF lines = <<>>
    THEN [out |-> out, lines |-> <<>>, awaiting |-> <<>>, exited |-> FALSE]
  ELSE IF trim(Head(lines).text) = <<>>
    THEN Serve(prog, Tail(lines), out)
  ELSE LET step == IF prog = "main" THEN mainLine(Head(lines).text)
                                    ELSE runMCPServerLine(Head(lines).text)
       IN  CASE step.kind = "write" ->
                  Serve(prog, Tail(lines),
                        Append(out, [line |-> step.response, answers |-> Head(lines).n]))
             [] step.kind = "await" ->
                  [out |-> out, lines |-> Tail(lines),
                   awaiting |-> <<[request |-> step.request, n |-> Head(lines).n]>>,
                   exited |-> FALSE]
             [] step.kind = "exit" ->
                  [out |-> out, lines |-> <<>>, awaiting |-> <<>>, exited |-> TRUE]

\* the sequence without its i-th element
RemoveAt(xs, i) == SubSeq(xs, 1, i - 1) \o SubSeq(xs, i + 1, Len(xs))

\* the memory-system state
memoryVars == << config, initialized, now, files, manifest, index, indexFile, prefs,
                 prefsFile, context, contextFile, ops, last, created, added, ended,
                 partialCalls >>

\* what the stdio loop leaves alone
rpcOthers == << memoryVars, calls, lifecycleVars, skillVars >>

\* a memory system nobody uses
MemoryIdle ==
  /\ config = [semanticIndex |-> TRUE, autoSave |-> TRUE, autoLoad |-> TRUE]
  /\ initialized = FALSE
  /\ now = 1
  /\ files = <<>>
  /\ manifest = Null
  /\ index = <<>>
  /\ indexFile = Null
  /\ prefs = Null
  /\ prefsFile = Null
  /\ context = Null
  /\ contextFile = Null
  /\ ops = 0
  /\ last = [op |-> "new"]
  /\ created = <<>>
  /\ added = <<>>
  /\ ended = {}
  /\ partialCalls = FALSE

\* companion-mcp.js:50-63, part_008:36-43 the server is initialized and
\* listens
InitRpc ==
  /\ MemoryIdle
  /\ calls = <<>>
  /\ program \in {"main", "runMCPServer"}
  /\ stdin = <<>>
  /\ sent = 0
  /\ buffer = <<>>
  /\ handlers = <<>>
  /\ stdout = <<>>
  /\ alive = TRUE
  /\ requests = <<>>
  /\ LifecycleIdle
  /\ SkillsIdle

\* the client writes a chunk
WriteChunk ==
  /\ alive
  /\ sent < MaxChunks
  /\ \E chunk \in Chunks : stdin' = Append(stdin, chunk)
  /\ sent' = sent + 1
  /\ UNCHANGED <<program, buffer, handlers, stdout, alive, requests, rpcOthers>>

\* companion-mcp.js:64-68, part_008:46-50 a chunk is handed to the program:
\* main gets every chunk as an event, also while a handler is awaiting;
\* the for-await loop of runMCPServer takes the next chunk when the body of
\* the loop has finished
DataArrives ==
  /\ alive
  /\ stdin # <<>>
  /\ program = "main" \/ handlers = <<>>
  /\ \E parts \in {split(buffer \o Head(stdin), "\n")} :
     \E lines \in {[i \in 1..(Len(parts) - 1) |->
                      [text |-> parts[i], n |-> Len(requests) + i]]} :
     \E run \in {Serve(program, lines, stdout)} :
       /\ buffer' = parts[Len(parts)]
       /\ requests' = requests \o lines
       /\ stdout' = run.out
       /\ alive' = ~run.exited
       /\ handlers' = IF run.awaiting = <<>>
                        THEN handlers
                        ELSE Append(handlers, [lines |-> run.lines,
                                               awaiting |-> run.awaiting[1]])
  /\ stdin' = Tail(stdin)
  /\ UNCHANGED <<program, sent, rpcOthers>>

\* companion-mcp.js:98-101, part_008:82-85, 96 the tools/call a handler
\* awaits returns: its response is written and the handler goes on with its
\* lines
CallToolReturns(h) ==
  /\ alive
  /\ \E answered \in {Append(stdout,
                        [line |-> formatResponse(handlers[h].awaiting.request.params[1].name,
                                                 handlers[h].awaiting.request.id),
                         answers |-> handlers[h].awaiting.n])} :
     \E run \in {Serve(program, handlers[h].lines, answered)} :
       /\ stdout' = run.out
       /\ alive' = ~run.exited
       /\ handlers' = IF run.awaiting = <<>>
                        THEN RemoveAt(handlers, h)
                        ELSE [handlers EXCEPT ![h] = [lines |-> run.lines,
                                                      awaiting |-> run.awaiting[1]]]
  /\ UNCHANGED <<program, stdin, sent, buffer, requests, rpcOthers>>

NextRpc ==
  \/ WriteChunk
  \/ DataArrives
  \/ \E h \in DOMAIN handlers : CallToolReturns(h)

SpecRpc == InitRpc /\ [][NextRpc]_vars

\* the responses written for the n-th line
ResponsesTo(n) == {k \in DOMAIN stdout : stdout[k].answers = n}

\* the id of the request on the line, <<>> if the line has none
IdOf(line) == IF JSONParse(line).ok THEN JSONParse(line).value.id ELSE <<>>

\* a response carries a result or an error {code, message}, not both
WellFormed(response) ==
  /\ (response.result # <<>>) # (response.error # <<>>)
  /\ response.error # <<>> => DOMAIN response.error[1] = {"code", "message"}

\* everything the client wrote has been dealt with
Settled == stdin = <<>> /\ handlers = <<>>

\* C26: every non-empty line gets exactly one response, with a result or an
\* error and with the id of its request, and the program goes on serving
C26_OneResponsePerLine ==
  /\ alive
  /\ \A n \in DOMAIN requests :
       trim(requests[n].text) # <<>> =>
         /\ Cardinality(ResponsesTo(n)) <= 1
         /\ Settled => Cardinality(ResponsesTo(n)) = 1
         /\ \A k \in ResponsesTo(n) :
              /\ WellFormed(stdout[k].line)
              /\ stdout[k].line.id = IdOf(requests[n].text)

\* C30: the responses are written in the order in which their lines arrived
C30_ResponsesInArrivalOrder ==
  \A j, k \in DOMAIN stdout : j < k => stdout[j].answers < stdout[k].answers


\* C27: createConversation either returns the id and the record file exists,
\* or fails and has created no file
C27_CreateAllOrNothing ==
  last.op = "createConversation" =>
    (last.outcome = "ok") = (MatchingFiles(files, last.id) # {})


(***************************************************************************)
(* Lifecycle of CompanionMCPServer (server.ts:16-39, 260-302, 577-582) and *)
(* of Companion (companion-mcp.js:169-204, 398-404, 458-462); the calls    *)
(* are split at their awaits                                               *)
(***************************************************************************)
\* the number of calls made on the server and its companions
MaxLifecycleCalls == 4

\* what the lifecycle calls leave alone
lifecycleOthers == << memoryVars, rpcVars, skillVars >>

InitLifecycle ==
  /\ MemoryIdle
  /\ RpcIdle
  /\ SkillsIdle
  /\ calls = <<>>
  /\ server = [initialized |-> FALSE, companion |-> 0]
  /\ companions = <<>>

\* a call that returned where it was made
ReturnedAtOnce(op, outcome) ==
  [op |-> op, pc |-> "done", outcome |-> outcome, k |-> server.companion,
   initializedAtCall |-> server.initialized, handler |-> FALSE,
   resumedInitialized |-> TRUE]

\* a call suspended at an await
Suspended(op, pc, k, handler) ==
  [op |-> op, pc |-> pc, outcome |-> "pending", k |-> k,
   initializedAtCall |-> server.initialized, handler |-> handler,
   resumedInitialized |-> TRUE]

\* server.ts:21-27, companion-mcp.js:458-460 server.initialize() is called:
\* on an initialized server it returns; otherwise createCompanion makes a
\* Companion and awaits its initialize
ServerInitialize ==
  /\ Len(calls) < MaxLifecycleCalls
  /\ IF server.initialized
       THEN /\ calls' = Append(calls, ReturnedAtOnce("initialize", "nothing done"))
            /\ UNCHANGED companions
       ELSE /\ companions' = Append(companions, [initialized |-> FALSE])
            /\ calls' = Append(calls, Suspended("initialize", "creating",
                                                Len(companions) + 1, FALSE))
  /\ UNCHANGED <<server, lifecycleOthers>>

\* companion-mcp.js:174-194, server.ts:27-38 Companion.initialize ends: it
\* sets its flag and the server takes the instance and sets its own; or it
\* throws (the memory system could not be read) and the server stays as it is
CompanionCreated(i) ==
  /\ calls[i].op = "initialize" /\ calls[i].pc = "creating"
  /\ \/ /\ companions' = [companions EXCEPT ![calls[i].k].initialized = TRUE]
        /\ server' = [initialized |-> TRUE, companion |-> calls[i].k]
        /\ calls' = [calls EXCEPT ![i].pc = "done", ![i].outcome = "ok"]
     \/ /\ calls' = [calls EXCEPT ![i].pc = "done", ![i].outcome = "error"]
        /\ UNCHANGED <<server, companions>>
  /\ UNCHANGED lifecycleOthers

\* server.ts:260-301, 512 callTool is called: without the flag or the
\* instance it returns an error result; otherwise the handler of the tool
\* starts and runs up to its first await.  companion_process goes through
\* Companion.process, which throws without the flag of the instance
\* (companion-mcp.js:200-202); callTool turns that into an error result
CallTool ==
  /\ Len(calls) < MaxLifecycleCalls
  /\ calls' = Append(calls,
       IF ~server.initialized \/ server.companion = 0
         THEN ReturnedAtOnce("callTool", "isError: server not initialized")
       ELSE IF ~companions[server.companion].initialized
         THEN [ReturnedAtOnce("callTool", "isError: Companion not initialized")
                 EXCEPT !.handler = TRUE]
       ELSE Suspended("callTool", "handling", server.companion, TRUE))
  /\ UNCHANGED <<server, companions, lifecycleOthers>>

\* server.ts:268-289 the await of the handler ends: the handler runs to its
\* end and callTool returns its result
HandlerResumes(i) ==
  /\ calls[i].op = "callTool" /\ calls[i].pc = "handling"
  /\ calls' = [calls EXCEPT ![i].pc = "done", ![i].outcome = "ok",
                            ![i].resumedInitialized = server.initialized]
  /\ UNCHANGED <<server, companions, lifecycleOthers>>

\* server.ts:577-581 server.shutdown() is called: with an instance it awaits
\* Companion.shutdown, which awaits the save of the memory
ServerShutdown ==
  /\ Len(calls) < MaxLifecycleCalls
  /\ IF server.companion # 0
       THEN /\ calls' = Append(calls, Suspended("shutdown", "saving",
                                                server.companion, FALSE))
            /\ UNCHANGED server
       ELSE /\ calls' = Append(calls, ReturnedAtOnce("shutdown", "ok"))
            /\ server' = [server EXCEPT !.initialized = FALSE]
  /\ UNCHANGED <<companions, lifecycleOthers>>

\* companion-mcp.js:398-404, server.ts:579-581 the save ends: the instance
\* clears its flag and then the server does; or the save throws and both
\* flags stay
CompanionShutDown(i) ==
  /\ calls[i].op = "shutdown" /\ calls[i].pc = "saving"
  /\ \/ /\ companions' = [companions EXCEPT ![calls[i].k].initialized = FALSE]
        /\ server' = [server EXCEPT !.initialized = FALSE]
        /\ calls' = [calls EXCEPT ![i].pc = "done", ![i].outcome = "ok"]
     \/ /\ calls' = [calls EXCEPT ![i].pc = "done", ![i].outcome = "error"]
        /\ UNCHANGED <<server, companions>>
  /\ UNCHANGED lifecycleOthers

\* companion-mcp.js:199-202 Companion.process is called on an instance (the
\* server hands it out, server.ts:587-589)
CompanionProcess ==
  /\ Len(calls) < MaxLifecycleCalls
  /\ \E k \in DOMAIN companions :
       calls' = Append(calls,
         [op |-> "process", pc |-> "done", k |-> k,
          outcome |-> IF companions[k].initialized
                        THEN "ok" ELSE "Companion not initialized",
          initializedAtCall |-> companions[k].initialized, handler |-> FALSE,
          resumedInitialized |-> TRUE])
  /\ UNCHANGED <<server, companions, lifecycleOthers>>

NextLifecycle ==
  \/ ServerInitialize
  \/ \E i \in DOMAIN calls : CompanionCreated(i)
  \/ CallTool
  \/ \E i \in DOMAIN calls : HandlerResumes(i)
  \/ ServerShutdown
  \/ \E i \in DOMAIN calls : CompanionShutDown(i)
  \/ CompanionProcess

SpecLifecycle == InitLifecycle /\ [][NextLifecycle]_vars

\* a call made without the flag is refused: process raises, callTool
\* returns an error result and starts no handler, initialize on an
\* initialized server does nothing
RefusedWithoutFlag ==
  \A i \in DOMAIN calls :
    /\ calls[i].op = "process" =>
         (calls[i].outcome = "Companion not initialized") = ~calls[i].initializedAtCall
    /\ calls[i].op = "callTool" /\ ~calls[i].initializedAtCall =>
         calls[i].outcome = "isError: server not initialized" /\ ~calls[i].handler
    /\ calls[i].op = "initialize" /\ calls[i].initializedAtCall =>
         calls[i].outcome = "nothing done"

\* C28: calls made on an uninitialized instance are refused, a second
\* initialize does nothing, and no tool handler runs while the server is
\* uninitialized
C28_Lifecycle ==
  /\ RefusedWithoutFlag
  /\ \A i \in DOMAIN calls :
       calls[i].op = "callTool" /\ calls[i].handler => calls[i].resumedInitialized


(***************************************************************************)
(* SkillLoader on the default registry (part_005)                          *)
(***************************************************************************)
\* the number of calls made on the loader
MaxSkillOps == 3

\* part_005:251-354 the default registry: id -> dependencies
skillRegistry ==
  [ id \in { "core.reasoning", "core.programming", "core.communication",
             "web.frontend", "web.backend", "web.fullstack",
             "specialized.refactoring", "specialized.performance",
             "specialized.security", "specialized.architecture" } |->
      CASE id \in {"core.reasoning", "core.communication"} -> <<>>
        [] id \in {"core.programming", "specialized.architecture"} -> <<"core.reasoning">>
        [] id = "web.fullstack" -> <<"web.frontend", "web.backend">>
        [] OTHER -> <<"core.programming">> ]

\* the lists of ids the callers pass to load: each skill alone, the three
\* core skills (companion-mcp.js:191), an id the registry does not hold
LoadRequests ==
  { <<id>> : id \in DOMAIN skillRegistry }
    \cup { <<"core.reasoning", "core.programming", "core.communication">>,
           <<"web.mobile">> }

\* Map.set: a new key goes to the end, a key already there keeps its place
MapSet(skills, id) == IF id \in Range(skills) THEN skills ELSE Append(skills, id)

\* part_005:18-59 load: the loaded skills afterwards and the two lists of the
\* result
RECURSIVE load(_, _)
load(skills, skillIds) ==
  IF skillIds = <<>>
    THEN [skills |-> skills, loadedSkills |-> <<>>, failedSkills |-> <<>>]
  ELSE LET skillId == Head(skillIds)
           after ==
             IF skillId \notin DOMAIN skillRegistry
               THEN [skills |-> skills, failed |-> TRUE]
             ELSE IF Len(skillRegistry[skillId]) > 0
               THEN LET depResult == load(skills, skillRegistry[skillId])
                    IN  IF Len(depResult.failedSkills) > 0
                          THEN [skills |-> depResult.skills, failed |-> TRUE]
                          ELSE [skills |-> MapSet(depResult.skills, skillId),
                                failed |-> FALSE]
             ELSE [skills |-> MapSet(skills, skillId), failed |-> FALSE]
           rest == load(after.skills, Tail(skillIds))
       IN  [skills |-> rest.skills,
            loadedSkills |-> (IF after.failed THEN <<>> ELSE <<skillId>>)
                               \o rest.loadedSkills,
            failedSkills |-> (IF after.failed THEN <<skillId>> ELSE <<>>)
                               \o rest.failedSkills]

\* part_005:70-75 a loaded skill other than skillId depends on it
HasDependent(skills, skillId) ==
  \E i \in DOMAIN skills :
    skills[i] # skillId /\ skillId \in Range(skillRegistry[skills[i]])

\* part_005:64-79 unload: returns false, throws, or deletes and returns true
unload(skills, skillId) ==
  IF skillId \notin Range(skills)
    THEN [skills |-> skills, outcome |-> "false"]
  ELSE IF HasDependent(skills, skillId)
    THEN [skills |-> skills, outcome |-> "throws"]
  ELSE [skills |-> SelectSeq(skills, LAMBDA id : id # skillId), outcome |-> "true"]

\* part_005:84-92 reload
reload(skills, skillId) ==
  IF skillId \notin Range(skills)
    THEN [skills |-> skills, outcome |-> "false"]
  ELSE IF unload(skills, skillId).outcome = "throws"
    THEN [skills |-> skills, outcome |-> "throws"]
  ELSE LET result == load(unload(skills, skillId).skills, <<skillId>>)
       IN  [skills |-> result.skills,
            outcome |-> IF skillId \in Range(result.loadedSkills)
                          THEN "true" ELSE "false"]

\* the largest number of dependencies a skill has
MostDependencies ==
  CHOOSE n \in 0..Cardinality(DOMAIN skillRegistry) :
    /\ \E id \in DOMAIN skillRegistry : Len(skillRegistry[id]) = n
    /\ \A id \in DOMAIN skillRegistry : Len(skillRegistry[id]) <= n

\* part_005:138-140 Array.prototype.sort by the number of dependencies,
\* largest first; the sort is stable: skills with n dependencies, then
\* fewer, each group in insertion order
RECURSIVE sortByDependencies(_, _)
sortByDependencies(skills, n) ==
  IF n < 0 THEN <<>>
  ELSE SelectSeq(skills, LAMBDA id : Len(skillRegistry[id]) = n)
         \o sortByDependencies(skills, n - 1)

\* part_005:142-144 the loop of unloadAll over the sorted list: it ends with
\* the first unload that throws
RECURSIVE unloadEach(_, _)
unloadEach(skills, sorted) ==
  IF sorted = <<>> THEN [skills |-> skills, outcome |-> "ok"]
  ELSE IF unload(skills, Head(sorted)).outcome = "throws"
    THEN [skills |-> skills, outcome |-> "throws"]
  ELSE unloadEach(unload(skills, Head(sorted)).skills, Tail(sorted))

\* part_005:136-145 unloadAll
unloadAll(skills) == unloadEach(skills, sortByDependencies(skills, MostDependencies))

\* what the loader leaves alone
skillOthers == << memoryVars, rpcVars, lifecycleVars >>

InitSkills ==
  /\ MemoryIdle
  /\ RpcIdle
  /\ LifecycleIdle
  /\ calls = <<>>
  /\ loadedSkills = <<>>

\* a call on the loader: the new Map and the entry of the log
SkillCall(op, arg, result) ==
  /\ Len(calls) < MaxSkillOps
  /\ loadedSkills' = result.skills
  /\ calls' = Append(calls, [op |-> op, arg |-> arg, outcome |-> result.outcome])
  /\ UNCHANGED skillOthers

Load ==
  \E skillIds \in LoadRequests :
    \E result \in {load(loadedSkills, skillIds)} :
      SkillCall("load", skillIds,
                [skills |-> result.skills,
                 outcome |-> IF Len(result.failedSkills) = 0
                               THEN "success" ELSE "failed"])

Unload ==
  \E skillId \in DOMAIN skillRegistry :
    SkillCall("unload", skillId, unload(loadedSkills, skillId))

Reload ==
  \E skillId \in DOMAIN skillRegistry :
    SkillCall("reload", skillId, reload(loadedSkills, skillId))

UnloadAll == SkillCall("unloadAll", <<>>, unloadAll(loadedSkills))

NextSkills ==
  \/ Load
  \/ Unload
  \/ Reload
  \/ UnloadAll

SpecSkills == InitSkills /\ [][NextSkills]_vars

\* all calls before the last one were loads that succeeded
OnlySuccessfulLoadsBefore ==
  \A i \in 1..(Len(calls) - 1) : calls[i].op = "load" /\ calls[i].outcome = "success"

\* the dependencies of every loaded skill are loaded
DependenciesLoaded ==
  \A i \in DOMAIN loadedSkills :
    Range(skillRegistry[loadedSkills[i]]) \subseteq Range(loadedSkills)

\* C29: unloadAll after successful loads returns normally and leaves no skill
\* loaded, and the dependencies of every loaded skill are loaded
C29_UnloadAllEmptiesLoader ==
  /\ calls # <<>> /\ calls[Len(calls)].op = "unloadAll" /\ OnlySuccessfulLoadsBefore =>
       calls[Len(calls)].outcome = "ok" /\ loadedSkills = <<>>
  /\ DependenciesLoaded

====
